---------------------------- MODULE Spec2Model ----------------------------
(***************************************************************************)
(* Model of keri.core.coring: the qualified cryptographic material codec   *)
(* (CryMat / SigMat), the key event serializer (Serder), prefix derivation *)
(* (Prefixer) and signing thresholds (Tholder).                            *)
(*                                                                         *)
(* Byte strings and text are sequences of integers 0..255 (text is ASCII). *)
(* A call's outcome is a record whose err field is "ok" or the name of the *)
(* exception the call raises.                                              *)
(***************************************************************************)
EXTENDS Integers, Sequences, FiniteSets, TLC

(***************************************************************************)
(* Text helpers                                                            *)
(***************************************************************************)

\* the printable ASCII characters, codes 32..126
AsciiPrintable ==
  << " ", "!", "dquote", "#", "$", "%", "&", "apostrophe", "(", ")", "*", "+", ",", "-", ".", "/",
     "0", "1", "2", "3", "4", "5", "6", "7", "8", "9", ":", ";", "<", "=", ">", "?",
     "@", "A", "B", "C", "D", "E", "F", "G", "H", "I", "J", "K", "L", "M", "N", "O",
     "P", "Q", "R", "S", "T", "U", "V", "W", "X", "Y", "Z", "[", "backslash", "]", "^", "_",
     "backtick", "a", "b", "c", "d", "e", "f", "g", "h", "i", "j", "k", "l", "m", "n", "o",
     "p", "q", "r", "s", "t", "u", "v", "w", "x", "y", "z", "{", "|", "}", "~" >>

\* ord(c) of a one character string
Ord(c) == 31 + (CHOOSE i \in 1..Len(AsciiPrintable) : AsciiPrintable[i] = c)

\* str.encode("utf-8") of an ASCII text given as a tuple of characters
Enc(chars) == [i \in 1..Len(chars) |-> Ord(chars[i])]

\* Python slicing s[a:b] for 0 <= a and any integer b (a negative b counts from the end)
PySlice(s, a, b) ==
  LET n  == Len(s)
      e0 == IF b < 0 THEN n + b ELSE b
      e  == IF e0 < 0 THEN 0 ELSE IF e0 > n THEN n ELSE e0
  IN  IF a >= e THEN << >> ELSE SubSeq(s, a + 1, e)

\* Python slicing s[a:]
PyFrom(s, a) == IF a >= Len(s) THEN << >> ELSE SubSeq(s, a + 1, Len(s))

\* n copies of byte c
Rep(c, n) == [i \in 1..n |-> c]

MinOf(S) == CHOOSE x \in S : \A y \in S : x <= y

Range(f) == {f[x] : x \in DOMAIN f}

(***************************************************************************)
(* Base64                                                                  *)
(***************************************************************************)

BASE64_PAD == 61   \* "="

\* Map Base64 index to char: A-Z a-z 0-9 - _
B64ChrByIdx ==
  [i \in 0..63 |-> IF i < 26 THEN 65 + i
                   ELSE IF i < 52 THEN 97 + (i - 26)
                   ELSE IF i < 62 THEN 48 + (i - 52)
                   ELSE IF i = 62 THEN 45 ELSE 95]

\* Map Base64 char to index; a char outside its domain is a KeyError
B64IdxByChr ==
  [c \in Range(B64ChrByIdx) |-> CHOOSE i \in 0..63 : B64ChrByIdx[i] = c]

RECURSIVE IntToB64Digits(_, _)
IntToB64Digits(i, chr) ==
  IF i \div 64 = 0 THEN << chr[i % 64] >>
  ELSE IntToB64Digits(i \div 64, chr) \o << chr[i % 64] >>

\* left pad of the digits d with "A" to at least l chars
IntToB64Pad(d, l) == IF Len(d) >= l THEN d ELSE Rep(65, l - Len(d)) \o d

\* IntToB64(i, l): base 64 digits of i, left padded with "A" to at least l
IntToB64(i, l) == IntToB64Pad(IntToB64Digits(i, B64ChrByIdx), l)

RECURSIVE B64ToIntAcc(_, _, _, _)
B64ToIntAcc(cs, k, acc, idx) ==
  IF k > Len(cs) THEN [err |-> "ok", val |-> acc]
  ELSE IF cs[k] \notin DOMAIN idx THEN [err |-> "KeyError", val |-> 0]
  ELSE B64ToIntAcc(cs, k + 1, acc * 64 + idx[cs[k]], idx)

\* B64ToInt(cs): [err, val]; KeyError when a char is not a Base64 char
B64ToInt(cs) == B64ToIntAcc(cs, 1, 0, B64IdxByChr)

\* char j (from 0) of the encoding of raw
B64EncChr(raw, j, n, g, k) ==
  IF (n - 3 * g = 1 /\ k >= 2) \/ (n - 3 * g = 2 /\ k = 3) THEN BASE64_PAD
  ELSE B64ChrByIdx[
         CASE k = 0 -> raw[3 * g + 1] \div 4
           [] k = 1 -> (raw[3 * g + 1] % 4) * 16
                         + (IF 3 * g + 2 <= n THEN raw[3 * g + 2] \div 16 ELSE 0)
           [] k = 2 -> (raw[3 * g + 2] % 16) * 4
                         + (IF 3 * g + 3 <= n THEN raw[3 * g + 3] \div 64 ELSE 0)
           [] OTHER -> raw[3 * g + 3] % 64 ]

\* base64.urlsafe_b64encode: 4 chars per 3 bytes, "=" padded
encodeB64(raw) ==
  [j \in 1..(4 * ((Len(raw) + 2) \div 3)) |->
     B64EncChr(raw, j - 1, Len(raw), (j - 1) \div 4, (j - 1) % 4)]

\* value of a char in the decoder's table after the urlsafe translation
\* ("-" and "+" are 62, "_" and "/" are 63); 64 for any other char
A2bVal(c) ==
  CASE c \in 65..90  -> c - 65
    [] c \in 97..122 -> c - 71
    [] c \in 48..57  -> c + 4
    [] c \in {45, 43} -> 62
    [] c \in {95, 47} -> 63
    [] OTHER -> 64

\* binascii.a2b_base64 (not strict): chars outside the alphabet are skipped;
\* a "=" that completes a quad (the first after three data chars, the second
\* after two) ends the input and the left over bits of that quad are dropped;
\* data that ends inside a quad is an error
A2bIsData(c) == A2bVal(c) < 64

\* whether the scan stops at position p of s, given the data chars before p
\* taken modulo 4 and the "=" up to p that no data char follows before p
A2bStopsAt(s, p, quad, pads) == s[p] = BASE64_PAD /\ quad >= 2 /\ quad + pads >= 4

\* the positions of s where the scan would stop
A2bStops(s) ==
  {p \in 1..Len(s) :
     A2bStopsAt(s, p,
       Len(SelectSeq(SubSeq(s, 1, p - 1), A2bIsData)) % 4,
       Cardinality({k \in 1..p : /\ s[k] = BASE64_PAD
                                 /\ \A j \in k..(p - 1) : A2bVal(s[j]) >= 64}))}

\* byte j (from 0) of the output for the values v of the data chars
A2bByte(v, g, m) ==
  CASE m = 0 -> v[g + 1] * 4 + v[g + 2] \div 16
    [] m = 1 -> (v[g + 2] % 16) * 16 + v[g + 3] \div 4
    [] OTHER -> (v[g + 3] % 4) * 64 + v[g + 4]

\* the output for the values v of the data chars scanned, stopped at a "=" or not
A2bOut(v, stopped) ==
  IF ~stopped /\ Len(v) % 4 # 0 THEN [err |-> "ValueError", val |-> << >>]
  ELSE [err |-> "ok",
        val |-> [j \in 1..(3 * (Len(v) \div 4) + (IF Len(v) % 4 >= 2 THEN (Len(v) % 4) - 1 ELSE 0)) |->
                   A2bByte(v, 4 * ((j - 1) \div 3), (j - 1) % 3)]]

\* the values of the data chars d
A2bVals(d) == [i \in 1..Len(d) |-> A2bVal(d[i])]

A2bScan(s, stop) ==
  A2bOut(A2bVals(SelectSeq(SubSeq(s, 1, IF stop = {} THEN Len(s) ELSE MinOf(stop) - 1),
                           A2bIsData)),
         stop # {})

\* base64.urlsafe_b64decode: [err, val]
decodeB64(s) == A2bScan(s, A2bStops(s))


(***************************************************************************)
(* Code tables of CryMat                                                   *)
(***************************************************************************)

\* CrySelDex: selector characters
CrySelDex_two  == <<48>>   \* "0"
CrySelDex_four == <<49>>   \* "1"
CrySelDex_dash == <<45>>   \* "-"

CryCntDex == { <<45, 65>>, <<45, 66>> }   \* "-A", "-B"
CryCntSizes    == [c \in CryCntDex |-> 4]
CryCntIdxSizes == [c \in CryCntDex |-> 2]
CryCntRawSizes == [c \in CryCntDex |-> 0]
CRYCNTMAX == 4095

CryOneDex == { <<c>> : c \in 65..76 }   \* "A" .. "L"
CryOneSizes    == [c \in CryOneDex |-> IF c[1] >= 75 THEN 76 ELSE 44]
CryOneRawSizes == [c \in CryOneDex |-> IF c[1] >= 75 THEN 56 ELSE 32]

\* the codex lists 0A, 0B and 0C; the size tables have entries for 0A and 0B
CryTwoDex == { <<48, c>> : c \in 65..67 }
CryTwoSizes    == [c \in { <<48, 65>>, <<48, 66>> } |-> IF c[2] = 65 THEN 24 ELSE 88]
CryTwoRawSizes == [c \in { <<48, 65>>, <<48, 66>> } |-> IF c[2] = 65 THEN 16 ELSE 64]

CryFourDex == { <<49, 65, 65, c>> : c \in 65..69 }   \* "1AAA" .. "1AAE"
CryFourSizes ==
  [c \in CryFourDex |-> IF c[4] <= 66 THEN 48 ELSE IF c[4] <= 68 THEN 80 ELSE 156]
CryFourRawSizes ==
  [c \in CryFourDex |-> IF c[4] <= 66 THEN 33 ELSE IF c[4] <= 68 THEN 57 ELSE 114]

\* all sizes in one dict
CrySizes    == CryCntSizes @@ CryOneSizes @@ CryTwoSizes @@ CryFourSizes
MINCRYSIZE  == MinOf(Range(CrySizes))
CryRawSizes == CryCntRawSizes @@ CryOneRawSizes @@ CryTwoRawSizes @@ CryFourRawSizes
CryIdxSizes == CryCntIdxSizes

CryNonTransDex == { <<66>>, <<49, 65, 65, 65>>, <<49, 65, 65, 67>> }   \* "B", "1AAA", "1AAC"
CryDigDex == { <<c>> : c \in 69..73 }   \* "E" .. "I"

\* named codes
Ed25519_Seed == <<65>>       \* "A"
Ed25519N     == <<66>>       \* "B"
Ed25519      == <<68>>       \* "D"
Blake3_256   == <<69>>       \* "E"
Salt_128     == <<48, 65>>   \* "0A"
CryTwo_Ed25519 == <<48, 66>> \* "0B"

(***************************************************************************)
(* CryMat                                                                  *)
(***************************************************************************)

NoMat == [cls |-> "none", code |-> << >>, index |-> 0, raw |-> << >>]

Fail(e) == [err |-> e, mat |-> NoMat]

\* CryMat._pad / SigMat._pad
Pad(raw) == (3 - (Len(raw) % 3)) % 3

\* the end of __init__ with raw given: the raw is cut to the raw size of the code
Init_cut(cls, raw, code, index, rawsizes) ==
  IF code \notin DOMAIN rawsizes THEN Fail("KeyError")
  ELSE IF Len(raw) < rawsizes[code] THEN Fail("ValidationError")
  ELSE [err |-> "ok",
        mat |-> [cls |-> cls, code |-> code, index |-> index,
                 raw |-> PySlice(raw, 0, rawsizes[code])]]

\* CryMat.__init__ with raw given: [err, mat]
CryMat_init_raw(raw, code, index) ==
  IF code = << >> THEN Fail("EmptyMaterialError")
  ELSE IF ~ ( (Pad(raw) = 1 /\ code \in CryOneDex) \/ (Pad(raw) = 2 /\ code \in CryTwoDex)
              \/ (Pad(raw) = 0 /\ code \in CryFourDex) \/ (Pad(raw) = 0 /\ code \in CryCntDex) )
  THEN Fail("ValidationError")
  ELSE IF code \in CryCntDex /\ (index < 0 \/ index > CRYCNTMAX)
  THEN Fail("ValidationError")
  ELSE Init_cut("CryMat", raw, code, index, CryRawSizes)

\* the end of _infil: full is the code with its index chars
Infil_emit(full, raw, pad) ==
  IF Len(full) % 4 # pad THEN [err |-> "ValidationError", val |-> << >>]
  ELSE [err |-> "ok", val |-> full \o PySlice(encodeB64(raw), 0, 0 - pad)]

\* the code with its index chars, where the code has an index size
Infil_full(code, index, idxsizes) ==
  IF code \in DOMAIN idxsizes THEN code \o IntToB64(index, idxsizes[code]) ELSE code

\* the end of _exfil / SigMat._exfil for the buffer qb cut to the entry of the
\* code, the code, its size cs in chars and the index read
Exfil_decode(cls, qb, code, cs, index, dec) ==
  IF dec.err # "ok" THEN Fail(dec.err)
  ELSE IF Len(dec.val) # ((Len(qb) - cs) * 3) \div 4 THEN Fail("ValueError")
  ELSE [err |-> "ok",
        mat |-> [cls |-> cls, code |-> code, index |-> index, raw |-> dec.val]]

Exfil_sized(cls, qb, h, idx, sizes) ==
  IF idx.err # "ok" THEN Fail(idx.err)
  ELSE IF Len(qb) < sizes[h.code] THEN Fail("ShortageError")
  ELSE IF Len(qb) > sizes[h.code] THEN Fail("ValidationError")
  ELSE Exfil_decode(cls, qb, h.code, h.cs, idx.val,
                    decodeB64(PyFrom(qb, h.cs) \o Rep(BASE64_PAD, h.cs % 4)))

\* h: what the head of the buffer selects, [err, code, cs, isz, cut]: the code,
\* its size with the index chars, the number of index chars and the table the
\* buffer is cut by
Exfil_tail(cls, qb64b, h, sizes) ==
  IF h.err # "ok" THEN Fail(h.err)
  ELSE IF h.code \notin DOMAIN h.cut THEN Fail("KeyError")
  ELSE Exfil_sized(cls, PySlice(qb64b, 0, h.cut[h.code]), h,
                   B64ToInt(SubSeq(PySlice(qb64b, 0, h.cut[h.code]), h.cs - h.isz + 1, h.cs)),
                   sizes)

NoHead(e) == [err |-> e, code |-> << >>, cs |-> 0, isz |-> 0, cut |-> << >>]

Selected(code, dex, cs, isz, cut) ==
  IF code \notin dex THEN NoHead("ValidationError")
  ELSE [err |-> "ok", code |-> code, cs |-> cs, isz |-> isz, cut |-> cut]

\* the branch of CryMat._exfil the first char selects
CryMat_head(qb64b) ==
  IF Len(qb64b) < MINCRYSIZE THEN NoHead("ShortageError")
  ELSE IF PySlice(qb64b, 0, 1) \in CryOneDex
  THEN Selected(PySlice(qb64b, 0, 1), CryOneDex, 1, 0, CryOneSizes)
  ELSE IF PySlice(qb64b, 0, 1) = CrySelDex_two
  THEN Selected(PySlice(qb64b, 0, 2), CryTwoDex, 2, 0, CryTwoSizes)
  ELSE IF PySlice(qb64b, 0, 1) = CrySelDex_four
  THEN Selected(PySlice(qb64b, 0, 4), CryFourDex, 4, 0, CryFourSizes)
  ELSE IF PySlice(qb64b, 0, 1) = CrySelDex_dash
  THEN Selected(PySlice(qb64b, 0, 2), CryCntDex, 4, 2, CryCntSizes)
  ELSE NoHead("ValueError")

(***************************************************************************)
(* Code tables of SigMat and SigMat                                        *)
(***************************************************************************)

SigSelDex_four == <<48>>   \* "0"
SigSelDex_dash == <<45>>   \* "-"

SigCntDex == { <<45, 65>>, <<45, 66>> }   \* "-A", "-B"
SigCntSizes    == [c \in SigCntDex |-> 4]
SigCntIdxSizes == [c \in SigCntDex |-> 2]
SigCntRawSizes == [c \in SigCntDex |-> 0]

SigTwoDex == { <<65>>, <<66>> }   \* "A", "B"
SigTwoSizes    == [c \in SigTwoDex |-> 88]
SigTwoIdxSizes == [c \in SigTwoDex |-> 1]
SigTwoRawSizes == [c \in SigTwoDex |-> 64]
SIGTWOMAX == 63

SigFourDex == { <<48, 65>> }   \* "0A"
SigFourSizes    == [c \in SigFourDex |-> 156]
SigFourIdxSizes == [c \in SigFourDex |-> 2]
SigFourRawSizes == [c \in SigFourDex |-> 114]
SIGFOURMAX == 4095

\* the five character codex and its tables are empty
SigFiveDex == { }

SigSizes    == SigCntSizes @@ SigTwoSizes @@ SigFourSizes
MINSIGSIZE  == MinOf(Range(SigSizes))
SigIdxSizes == SigCntIdxSizes @@ SigTwoIdxSizes @@ SigFourIdxSizes
SigRawSizes == SigCntRawSizes @@ SigTwoRawSizes @@ SigFourRawSizes

SigTwo_Ed25519 == <<65>>   \* "A"

\* SigMat.__init__ with raw given: [err, mat]
SigMat_init_raw(raw, code, index) ==
  IF ~ ( (Pad(raw) = 2 /\ code \in SigTwoDex) \/ (Pad(raw) = 0 /\ code \in SigCntDex)
         \/ (Pad(raw) = 0 /\ code \in SigFourDex) \/ (Pad(raw) = 1 /\ code \in SigFiveDex) )
  THEN Fail("ValidationError")
  ELSE IF \/ (code \in SigTwoDex  /\ (index < 0 \/ index > SIGTWOMAX))
          \/ (code \in SigCntDex  /\ (index < 0 \/ index > SIGFOURMAX))
          \/ (code \in SigFourDex /\ (index < 0 \/ index > SIGFOURMAX))
  THEN Fail("ValidationError")
  ELSE Init_cut("SigMat", raw, code, index, SigRawSizes)

\* the branch of SigMat._exfil the first char selects
SigMat_head(qb64b) ==
  IF Len(qb64b) < MINSIGSIZE THEN NoHead("ShortageError")
  ELSE IF PySlice(qb64b, 0, 1) \in SigTwoDex
  THEN Selected(PySlice(qb64b, 0, 1), SigTwoDex, 2, 1, SigTwoSizes)
  ELSE IF PySlice(qb64b, 0, 1) = SigSelDex_four
  THEN Selected(PySlice(qb64b, 0, 2), SigFourDex, 4, 2, SigFourSizes)
  ELSE IF PySlice(qb64b, 0, 1) = SigSelDex_dash
  THEN Selected(PySlice(qb64b, 0, 2), SigCntDex, 4, 2, SigCntSizes)
  ELSE NoHead("ValueError")

\* the constructor, the emitter and the parser of either class
Mat_init_raw(cls, raw, code, index) ==
  IF cls = "CryMat" THEN CryMat_init_raw(raw, code, index)
  ELSE SigMat_init_raw(raw, code, index)

\* CryMat._infil / SigMat._infil: [err, val]
Mat_infil(mat) ==
  Infil_emit(Infil_full(mat.code, mat.index,
                        IF mat.cls = "CryMat" THEN CryIdxSizes ELSE SigIdxSizes),
             mat.raw, Pad(mat.raw))

\* CryMat._exfil / SigMat._exfil: [err, mat]
Mat_exfil(cls, qb64b) ==
  Exfil_tail(cls, qb64b,
             IF cls = "CryMat" THEN CryMat_head(qb64b) ELSE SigMat_head(qb64b),
             IF cls = "CryMat" THEN CrySizes ELSE SigSizes)

CryMat_exfil(qb64b) == Mat_exfil("CryMat", qb64b)

(***************************************************************************)
(* Digests and signatures                                                  *)
(*                                                                         *)
(* blake3 and Ed25519 are modelled by checksums that keep what the code    *)
(* relies on: a digest is 32 bytes fixed by the input, a signature is 64   *)
(* bytes fixed by the message and the key, and only equal inputs are taken *)
(* to give equal outputs.                                                  *)
(***************************************************************************)

\* the sum of f[lo..hi]
RECURSIVE SumRange(_, _, _)
SumRange(f, lo, hi) ==
  IF lo > hi THEN 0
  ELSE IF lo = hi THEN f[lo]
  ELSE SumRange(f, lo, (lo + hi) \div 2) + SumRange(f, (lo + hi) \div 2 + 1, hi)

\* a position weighted checksum of the bytes b, modulo 65521
Checksum(b, m, c) ==
  SumRange([i \in 1..Len(b) |-> ((b[i] + 1) * ((i * i * m + i * c + 1) % 65521)) % 65521],
           1, Len(b)) % 65521

\* n bytes spread from two checksums and a length
Spread(n, h1, h2, len) ==
  [j \in 1..n |-> CASE j = 1 -> h1 % 256
                    [] j = 2 -> h1 \div 256
                    [] j = 3 -> h2 % 256
                    [] j = 4 -> h2 \div 256
                    [] j = 5 -> len % 256
                    [] OTHER -> (h1 * j + h2 * (j + 7) + len) % 256]

\* blake3.blake3(ser).digest()
blake3(ser) == Spread(32, Checksum(ser, 3, 5), Checksum(ser, 7, 11), Len(ser))

\* pysodium.crypto_sign_seed_keypair(seed): the verkey
crypto_sign_seed_keypair(seed) ==
  Spread(32, Checksum(seed, 13, 17), Checksum(seed, 19, 23), 1)

\* pysodium.crypto_sign_detached(ser, seed + verkey)
crypto_sign_detached(ser, verkey) ==
  Spread(64, Checksum(verkey \o ser, 29, 31), Checksum(verkey \o ser, 37, 41), Len(ser))

\* pysodium.crypto_sign_verify_detached(sig, ser, key): TRUE when it returns,
\* FALSE when it raises
crypto_sign_verify_detached(sig, ser, key) ==
  Len(sig) = 64 /\ Len(key) = 32 /\ sig = crypto_sign_detached(ser, key)

(***************************************************************************)
(* Diger                                                                   *)
(*                                                                         *)
(* The digests of hashlib are modelled as blake3 is, each by checksums of  *)
(* its own, so that the digests of one serialization under two algorithms  *)
(* differ.                                                                 *)
(***************************************************************************)

Blake2b_256 == <<70>>   \* "F"
Blake2s_256 == <<71>>   \* "G"
SHA3_256    == <<72>>   \* "H"
SHA2_256    == <<73>>   \* "I"

\* hashlib.blake2b(ser, digest_size=32).digest()
blake2b(ser) == Spread(32, Checksum(ser, 43, 47), Checksum(ser, 53, 59), Len(ser))

\* hashlib.blake2s(ser, digest_size=32).digest()
blake2s(ser) == Spread(32, Checksum(ser, 61, 67), Checksum(ser, 71, 73), Len(ser))

\* hashlib.sha3_256(ser).digest()
sha3_256(ser) == Spread(32, Checksum(ser, 79, 83), Checksum(ser, 89, 97), Len(ser))

\* hashlib.sha256(ser).digest()
sha256(ser) == Spread(32, Checksum(ser, 101, 103), Checksum(ser, 107, 109), Len(ser))

\* the digest of ser that Diger.__init__ computes for a code: [err, val]
Diger_digest(ser, code) ==
  CASE code = Blake3_256 -> [err |-> "ok", val |-> blake3(ser)]
    [] code = Blake2b_256 -> [err |-> "ok", val |-> blake2b(ser)]
    [] code = Blake2s_256 -> [err |-> "ok", val |-> blake2s(ser)]
    [] code = SHA3_256 -> [err |-> "ok", val |-> sha3_256(ser)]
    [] code = SHA2_256 -> [err |-> "ok", val |-> sha256(ser)]
    [] OTHER -> [err |-> "ValueError", val |-> << >>]

\* the end of Diger.__init__: the choice of ._verify by the code of the material
Diger_coded(r) ==
  IF r.err # "ok" THEN r
  ELSE IF r.mat.code \notin {Blake3_256, Blake2b_256, Blake2s_256, SHA3_256, SHA2_256}
  THEN Fail("ValueError")
  ELSE r

\* the handler of EmptyMaterialError in Diger.__init__
Diger_of_ser(ser, code, dig) ==
  IF ser = << >> THEN Fail("EmptyMaterialError")
  ELSE IF dig.err # "ok" THEN Fail(dig.err)
  ELSE CryMat_init_raw(dig.val, code, 0)

\* the call of CryMat.__init__ by Diger.__init__, r being its outcome
Diger_super(r, ser, code) ==
  IF r.err = "EmptyMaterialError" THEN Diger_coded(Diger_of_ser(ser, code, Diger_digest(ser, code)))
  ELSE Diger_coded(r)

\* Diger(raw=raw, code=code), Diger(qb64b=qb64b), Diger(ser=ser, code=code),
\* given telling which of raw and qb64b is not None: [err, mat]
Diger_init(given, raw, qb64b, ser, code) ==
  CASE given = "raw" -> Diger_super(CryMat_init_raw(raw, code, 0), ser, code)
    [] given = "qb64b" -> Diger_super(CryMat_exfil(qb64b), ser, code)
    [] OTHER -> Diger_super(Fail("EmptyMaterialError"), ser, code)

\* Diger.verify(ser) by the ._verify of the code: _blake3_256, _blake2b_256,
\* _blake2s_256, _sha3_256, _sha2_256
Diger_verify(dig, ser) ==
  CASE dig.code = Blake3_256 -> blake3(ser) = dig.raw
    [] dig.code = Blake2b_256 -> blake2b(ser) = dig.raw
    [] dig.code = Blake2s_256 -> blake2s(ser) = dig.raw
    [] dig.code = SHA3_256 -> sha3_256(ser) = dig.raw
    [] OTHER -> sha256(ser) = dig.raw

\* an outcome of compare: [err, val, digests], digests being the number of
\* digests of ser computed on the way
Compared(e, val, digests) == [err |-> e, val |-> val, digests |-> digests]

\* the end of compare without the return of False for equal codes
Diger_compare_codes_agile(a, ser, d) ==
  IF d.err # "ok" THEN Compared(d.err, FALSE, 0)
  ELSE IF ~Diger_verify(d.mat, ser) THEN Compared("ok", FALSE, 1)
  ELSE Compared("ok", Diger_verify(a, ser), 2)

\* the end of compare, d being the outcome of the construction of the other
\* diger: equal codes give False, else diger.verify(ser) and self.verify(ser)
Diger_compare_codes(a, ser, d) ==
  IF d.err # "ok" THEN Compared(d.err, FALSE, 0)
  ELSE IF d.mat.code = a.code THEN Compared("ok", FALSE, 0)
  ELSE IF ~Diger_verify(d.mat, ser) THEN Compared("ok", FALSE, 1)
  ELSE Compared("ok", Diger_verify(a, ser), 2)

\* Diger.compare(ser, dig, diger) of the diger a with qb64b aq; other is
\* [given, dig, mat], given telling which of dig and diger is not None
Diger_compare(a, aq, ser, other) ==
  CASE other.given = "dig" ->
         IF other.dig = aq THEN Compared("ok", TRUE, 0)
         ELSE Diger_compare_codes(a, ser, Diger_init("qb64b", << >>, other.dig, << >>, Blake3_256))
    [] other.given = "diger" ->
         IF Mat_infil(other.mat).val = aq THEN Compared("ok", TRUE, 0)
         ELSE Diger_compare_codes(a, ser, [err |-> "ok", mat |-> other.mat])
    [] OTHER -> Compared("ValueError", FALSE, 0)

(***************************************************************************)
(* Key event dicts                                                         *)
(*                                                                         *)
(* A dict is the sequence of its <<label, value>> items in insertion       *)
(* order.  A value is a str or a list of str.                              *)
(***************************************************************************)

Str(s) == [tp |-> "str", s |-> s, l |-> << >>]
List(l) == [tp |-> "list", s |-> << >>, l |-> l]

\* label in d
Has(d, label) == \E i \in 1..Len(d) : d[i][1] = label

\* d[label]
Get(d, label) == d[CHOOSE i \in 1..Len(d) : d[i][1] = label][2]

\* d[label] = value
Put(d, label, value) ==
  IF Has(d, label)
  THEN [i \in 1..Len(d) |-> IF d[i][1] = label THEN <<label, value>> ELSE d[i]]
  ELSE Append(d, <<label, value>>)

\* bool(value)
Truthy(value) == value.s # << >> \/ value.l # << >>

\* the labels of a key event
Lv == <<118>>
Li == <<105>>
Lt == <<116>>
Lk == <<107>>
Ln == <<110>>
Lkt == <<107, 116>>

\* the concatenation of the sequences ss[lo..hi]
RECURSIVE FlattenRange(_, _, _)
FlattenRange(ss, lo, hi) ==
  IF lo > hi THEN << >>
  ELSE IF lo = hi THEN ss[lo]
  ELSE FlattenRange(ss, lo, (lo + hi) \div 2) \o FlattenRange(ss, (lo + hi) \div 2 + 1, hi)

Flatten(ss) == FlattenRange(ss, 1, Len(ss))

\* sep.join(ss)
Join(ss, sep) == Flatten([i \in 1..Len(ss) |-> IF i = 1 THEN ss[i] ELSE sep \o ss[i]])

(***************************************************************************)
(* Version strings                                                         *)
(***************************************************************************)

\* Serials
JSON == <<74, 83, 79, 78>>
MGPK == <<77, 71, 80, 75>>
CBOR == <<67, 66, 79, 82>>
Serials == {JSON, MGPK, CBOR}

Version == [major |-> 1, minor |-> 0]

VERRAWSIZE == 6
VERFULLSIZE == 17
MINSNIFFSIZE == 12 + VERFULLSIZE

\* "{:x}".format(n)
RECURSIVE HexDigits(_)
HexDigits(n) ==
  IF n < 16 THEN << IF n < 10 THEN 48 + n ELSE 87 + n >>
  ELSE HexDigits(n \div 16) \o << IF n % 16 < 10 THEN 48 + (n % 16) ELSE 87 + (n % 16) >>

\* the digits d left padded with "0" to at least w chars
ZeroPad(d, w) == IF Len(d) >= w THEN d ELSE Rep(48, w - Len(d)) \o d

\* a tag that names the JSON kind whatever the kind is
Versify_json(version, kind, size) ==
  <<75, 69, 82, 73>> \o HexDigits(version.major) \o HexDigits(version.minor)
    \o JSON \o ZeroPad(HexDigits(size), VERRAWSIZE) \o <<95>>

\* Versify: VERFMT.format(version[0], version[1], kind, size, VERRAWSIZE)
Versify(version, kind, size) ==
  <<75, 69, 82, 73>> \o HexDigits(version.major) \o HexDigits(version.minor)
    \o kind \o ZeroPad(HexDigits(size), VERRAWSIZE) \o <<95>>

IsHex(c) == c \in 48..57 \/ c \in 97..102

\* Versify(version, kind, size) with its check of the kind: [err, val]
Versify_checked(version, kind, size) ==
  IF kind \notin Serials THEN [err |-> "ValueError", val |-> << >>]
  ELSE [err |-> "ok", val |-> Versify(version, kind, size)]

\* VEREX matches s at position p (from 1)
ReverAt(s, p) ==
  /\ p + 16 <= Len(s)
  /\ s[p] = 75 /\ s[p + 1] = 69 /\ s[p + 2] = 82 /\ s[p + 3] = 73
  /\ \A i \in 4..5 : IsHex(s[p + i])
  /\ \A i \in 6..9 : s[p + i] \in 65..90
  /\ \A i \in 10..15 : IsHex(s[p + i])
  /\ s[p + 16] = 95

\* the least member of a set of positions, 0 when there is none
FirstOf(ps) == IF ps = {} THEN 0 ELSE MinOf(ps)

\* Rever.search(s): the position (from 1) of the first match, 0 when none
ReverSearch(s) == FirstOf({p \in 1..(Len(s) - 16) : ReverAt(s, p)})

\* int(cs, 16) of hex digits cs
RECURSIVE HexToInt(_, _, _)
HexToInt(cs, k, acc) ==
  IF k > Len(cs) THEN acc
  ELSE HexToInt(cs, k + 1, acc * 16 + (IF cs[k] <= 57 THEN cs[k] - 48 ELSE cs[k] - 87))

\* the groups of a match of VEREX at position p of s: [err, kind, version, size];
\* p = 0 is no match
ReverGroups(s, p) ==
  IF p = 0 THEN [err |-> "ValueError", kind |-> << >>, version |-> Version, size |-> 0]
  ELSE [err |-> IF SubSeq(s, p + 6, p + 9) \in Serials THEN "ok" ELSE "ValueError",
        kind |-> SubSeq(s, p + 6, p + 9),
        version |-> [major |-> HexToInt(SubSeq(s, p + 4, p + 4), 1, 0),
                     minor |-> HexToInt(SubSeq(s, p + 5, p + 5), 1, 0)],
        size |-> HexToInt(SubSeq(s, p + 10, p + 15), 1, 0)]

\* Deversify(vs): Rever.match takes the start of vs
Deversify(vs) == ReverGroups(vs, IF ReverAt(vs, 1) THEN 1 ELSE 0)

(***************************************************************************)
(* Serializations                                                          *)
(***************************************************************************)

\* json.dumps of a str: quoted, with the quote and the backslash escaped
JsonStr(s) ==
  <<34>> \o Flatten([i \in 1..Len(s) |-> IF s[i] \in {34, 92} THEN <<92, s[i]>> ELSE <<s[i]>>])
         \o <<34>>

\* json.dumps of a value with separators "," and ":"
JsonValue(value) ==
  IF value.tp = "str" THEN JsonStr(value.s)
  ELSE <<91>> \o Join([i \in 1..Len(value.l) |-> JsonStr(value.l[i])], <<44>>) \o <<93>>

\* json.dumps(ked, separators=(",", ":"), ensure_ascii=False).encode("utf-8")
JsonDumps(ked) ==
  <<123>> \o Join([i \in 1..Len(ked) |-> JsonStr(ked[i][1]) \o <<58>> \o JsonValue(ked[i][2])],
                  <<44>>)
          \o <<125>>

\* the first bytes of the items of MessagePack and of CBOR: a map, an array and
\* a str whose size is in the first byte up to fix, in the next byte after str8
MgpkHeads == [map |-> 128, arr |-> 144, str |-> 160, fix |-> 31, str8 |-> 217, ext |-> 15]
CborHeads == [map |-> 160, arr |-> 128, str |-> 96, fix |-> 23, str8 |-> 120, ext |-> 23]

BinStr(s, h) ==
  (IF Len(s) <= h.fix THEN << h.str + Len(s) >> ELSE << h.str8, Len(s) >>) \o s

BinValue(value, h) ==
  IF value.tp = "str" THEN BinStr(value.s, h)
  ELSE << h.arr + Len(value.l) >> \o Flatten([i \in 1..Len(value.l) |-> BinStr(value.l[i], h)])

\* msgpack.dumps(ked) / cbor.dumps(ked)
BinDumps(ked, h) ==
  << h.map + Len(ked) >>
    \o Flatten([i \in 1..Len(ked) |-> BinStr(ked[i][1], h) \o BinValue(ked[i][2], h)])

\* the serialization of ked of a kind of Serials
Dumps(ked, kind) ==
  IF kind = JSON THEN JsonDumps(ked)
  ELSE BinDumps(ked, IF kind = MGPK THEN MgpkHeads ELSE CborHeads)

NoLoad(e) == [err |-> e, val |-> << >>]

\* the backslashes that end right before position p of s
BackslashRun(s, p) ==
  IF p = 1 \/ s[p - 1] # 92 THEN 0
  ELSE p - 1 - FirstOf({k \in 1..(p - 1) : \A j \in k..(p - 1) : s[j] = 92}) + 1

\* the positions of the quotes of s that no backslash escapes
JsonQuotes(s) ==
  SelectSeq([p \in 1..Len(s) |-> p], LAMBDA p : s[p] = 34 /\ BackslashRun(s, p) % 2 = 0)

\* a str body with its escapes undone
JsonUnescape(b) ==
  IF \A i \in 1..Len(b) : b[i] # 92 THEN b
  ELSE [i \in 1..Len(SelectSeq([p \in 1..Len(b) |-> p],
                               LAMBDA p : ~(b[p] = 92 /\ BackslashRun(b, p) % 2 = 0))) |->
          b[SelectSeq([p \in 1..Len(b) |-> p],
                      LAMBDA p : ~(b[p] = 92 /\ BackslashRun(b, p) % 2 = 0))[i]]]

\* the j-th str of s, q being the positions of its quotes
JsonBody(s, q, j) == JsonUnescape(SubSeq(s, q[2 * j - 1] + 1, q[2 * j] - 1))

\* the text after the j-th str of s up to the next str or the end
JsonGap(s, q, j) ==
  SubSeq(s, q[2 * j] + 1, IF 2 * j = Len(q) THEN Len(s) ELSE q[2 * j + 1] - 1)

\* json.loads walks the strs of s from the j-th: what is expected (a "key", a
\* "val" or an "elem" of a list), the label and the list in hand, the items done
RECURSIVE JsonWalk(_, _, _, _, _, _, _)
JsonStep(s, q, j, mode, label, elems, acc, body, gap, last) ==
  CASE mode = "key" /\ gap = <<58>> /\ ~last ->
         JsonWalk(s, q, j + 1, "val", body, << >>, acc)
    [] mode = "key" /\ gap = <<58, 91>> /\ ~last ->
         JsonWalk(s, q, j + 1, "elem", body, << >>, acc)
    [] mode = "key" /\ gap = <<58, 91, 93, 44>> /\ ~last ->
         JsonWalk(s, q, j + 1, "key", << >>, << >>, Append(acc, <<body, List(<< >>)>>))
    [] mode = "key" /\ gap = <<58, 91, 93, 125>> /\ last ->
         [err |-> "ok", val |-> Append(acc, <<body, List(<< >>)>>)]
    [] mode = "val" /\ gap = <<44>> /\ ~last ->
         JsonWalk(s, q, j + 1, "key", << >>, << >>, Append(acc, <<label, Str(body)>>))
    [] mode = "val" /\ gap = <<125>> /\ last ->
         [err |-> "ok", val |-> Append(acc, <<label, Str(body)>>)]
    [] mode = "elem" /\ gap = <<44>> /\ ~last ->
         JsonWalk(s, q, j + 1, "elem", label, Append(elems, body), acc)
    [] mode = "elem" /\ gap = <<93, 44>> /\ ~last ->
         JsonWalk(s, q, j + 1, "key", << >>, << >>,
                  Append(acc, <<label, List(Append(elems, body))>>))
    [] mode = "elem" /\ gap = <<93, 125>> /\ last ->
         [err |-> "ok", val |-> Append(acc, <<label, List(Append(elems, body))>>)]
    [] OTHER -> NoLoad("JSONDecodeError")

JsonWalk(s, q, j, mode, label, elems, acc) ==
  JsonStep(s, q, j, mode, label, elems, acc, JsonBody(s, q, j), JsonGap(s, q, j),
           2 * j = Len(q))

JsonScan(s, q) ==
  IF s = <<123, 125>> THEN [err |-> "ok", val |-> << >>]
  ELSE IF Len(q) = 0 \/ Len(q) % 2 # 0 \/ SubSeq(s, 1, q[1] - 1) # <<123>>
  THEN NoLoad("JSONDecodeError")
  ELSE JsonWalk(s, q, 1, "key", << >>, << >>, << >>)

\* json.loads(s) of an object of strs and lists of strs without white space
JsonLoads(s) == JsonScan(s, JsonQuotes(s))

\* whether a str starts at position p of s and ends inside s
BinIsStr(s, p, h) ==
  /\ p <= Len(s)
  /\ \/ s[p] \in h.str..(h.str + h.fix) /\ p + (s[p] - h.str) <= Len(s)
     \/ s[p] = h.str8 /\ p + 1 <= Len(s) /\ p + 1 + s[p + 1] <= Len(s)

\* the first and the last position of the body of the str at p
BinFirst(s, p, h) == IF s[p] = h.str8 THEN p + 2 ELSE p + 1
BinLast(s, p, h) == IF s[p] = h.str8 THEN p + 1 + s[p + 1] ELSE p + (s[p] - h.str)

\* n strs from position p: [err, val, next]
RECURSIVE BinElems(_, _, _, _, _)
BinElems(s, p, n, h, acc) ==
  IF n = 0 THEN [err |-> "ok", val |-> List(acc), next |-> p]
  ELSE IF ~BinIsStr(s, p, h) THEN [err |-> "DecodeError", val |-> Str(<< >>), next |-> p]
  ELSE BinElems(s, BinLast(s, p, h) + 1, n - 1, h,
                Append(acc, SubSeq(s, BinFirst(s, p, h), BinLast(s, p, h))))

\* the value at position p: [err, val, next]
BinRead(s, p, h) ==
  IF BinIsStr(s, p, h)
  THEN [err |-> "ok", val |-> Str(SubSeq(s, BinFirst(s, p, h), BinLast(s, p, h))),
        next |-> BinLast(s, p, h) + 1]
  ELSE IF p <= Len(s) /\ s[p] \in h.arr..(h.arr + h.ext)
  THEN BinElems(s, p + 1, s[p] - h.arr, h, << >>)
  ELSE [err |-> "DecodeError", val |-> Str(<< >>), next |-> p]

\* n items from position p
RECURSIVE BinItems(_, _, _, _, _)
BinItem(s, n, h, acc, label, v) ==
  IF v.err # "ok" THEN NoLoad(v.err)
  ELSE BinItems(s, v.next, n - 1, h, Append(acc, <<label, v.val>>))

BinItems(s, p, n, h, acc) ==
  IF n = 0 THEN (IF p = Len(s) + 1 THEN [err |-> "ok", val |-> acc] ELSE NoLoad("ExtraData"))
  ELSE IF ~BinIsStr(s, p, h) THEN NoLoad("DecodeError")
  ELSE BinItem(s, n, h, acc, SubSeq(s, BinFirst(s, p, h), BinLast(s, p, h)),
               BinRead(s, BinLast(s, p, h) + 1, h))

\* msgpack.loads(s) / cbor.loads(s) of a map of strs and arrays of strs
BinLoads(s, h) ==
  IF Len(s) = 0 \/ s[1] \notin h.map..(h.map + h.ext) THEN NoLoad("DecodeError")
  ELSE BinItems(s, 2, s[1] - h.map, h, << >>)

\* the deserialization of s of a kind of Serials
Loads(s, kind) ==
  IF kind = JSON THEN JsonLoads(s)
  ELSE BinLoads(s, IF kind = MGPK THEN MgpkHeads ELSE CborHeads)

(***************************************************************************)
(* Serder                                                                  *)
(***************************************************************************)

\* no kind given (None)
NoKind == << >>

ExFail(e, ked) == [err |-> e, raw |-> << >>, kind |-> NoKind, ked |-> ked, version |-> Version]

\* the end of _exhale: the tag matched at fore is replaced by vs, the
\* substitution must keep the size, and ked["v"] is set to vs in the dict given
Exhale_replace(ked, kind, version, raw, fore, vs) ==
  IF fore = 0 \/ fore - 1 > 12 THEN ExFail("ValueError", ked)
  ELSE IF Len(raw) # Len(PySlice(raw, 0, fore - 1) \o vs \o PyFrom(raw, fore + 16))
  THEN ExFail("ValueError", ked)
  ELSE [err |-> "ok", raw |-> PySlice(raw, 0, fore - 1) \o vs \o PyFrom(raw, fore + 16),
        kind |-> kind, ked |-> Put(ked, Lv, Str(vs)), version |-> version]

\* the same without the update of ked["v"]
Exhale_replace_raw(ked, kind, version, raw, fore, vs) ==
  IF fore = 0 \/ fore - 1 > 12 THEN ExFail("ValueError", ked)
  ELSE IF Len(raw) # Len(PySlice(raw, 0, fore - 1) \o vs \o PyFrom(raw, fore + 16))
  THEN ExFail("ValueError", ked)
  ELSE [err |-> "ok", raw |-> PySlice(raw, 0, fore - 1) \o vs \o PyFrom(raw, fore + 16),
        kind |-> kind, ked |-> ked, version |-> version]

Exhale_dumped(ked, kind, version, raw) ==
  Exhale_replace(ked, kind, version, raw, ReverSearch(raw), Versify(version, kind, Len(raw)))

Exhale_kind(ked, kind, version) ==
  IF kind \notin Serials THEN ExFail("ValueError", ked)
  ELSE Exhale_dumped(ked, kind, version, Dumps(ked, kind))

Exhale_versioned(ked, kind, dv) ==
  IF dv.err # "ok" THEN ExFail(dv.err, ked)
  ELSE IF dv.version # Version THEN ExFail("VersionError", ked)
  ELSE Exhale_kind(ked, IF kind = NoKind THEN dv.kind ELSE kind, dv.version)

\* Serder._exhale(ked, kind): [err, raw, kind, ked, version]; ked is the dict
\* given as the call leaves it
Exhale(ked, kind) ==
  IF ~Has(ked, Lv) THEN ExFail("ValueError", ked)
  ELSE Exhale_versioned(ked, kind, Deversify(Get(ked, Lv).s))

InFail(e) == [err |-> e, ked |-> << >>, kind |-> NoKind, version |-> Version, size |-> 0]

Inhale_loaded(g, ld) ==
  IF ld.err # "ok" THEN InFail(ld.err)
  ELSE [err |-> "ok", ked |-> ld.val, kind |-> g.kind, version |-> g.version, size |-> g.size]

\* Inhale_sniffed with the size of the buffer checked before the version
Inhale_sniffed_size_first(raw, p, g) ==
  IF p = 0 \/ p - 1 > 12 THEN InFail("ValueError")
  ELSE IF g.err # "ok" THEN InFail(g.err)
  ELSE IF Len(raw) < g.size THEN InFail("ShortageError")
  ELSE IF g.version # Version THEN InFail("VersionError")
  ELSE Inhale_loaded(g, Loads(PySlice(raw, 0, g.size), g.kind))

\* _inhale after the search of _sniff: p is the match, g its groups
Inhale_sniffed(raw, p, g) ==
  IF p = 0 \/ p - 1 > 12 THEN InFail("ValueError")
  ELSE IF g.err # "ok" THEN InFail(g.err)
  ELSE IF g.version # Version THEN InFail("VersionError")
  ELSE IF Len(raw) < g.size THEN InFail("ShortageError")
  ELSE Inhale_loaded(g, Loads(PySlice(raw, 0, g.size), g.kind))

Inhale_at(raw, p) == Inhale_sniffed(raw, p, ReverGroups(raw, p))

\* Serder._inhale(raw) with Serder._sniff: [err, ked, kind, version, size]
Inhale(raw) ==
  IF Len(raw) < MINSNIFFSIZE THEN InFail("ShortageError")
  ELSE Inhale_at(raw, ReverSearch(raw))

\* Diger(ser=ser, code=code): [err, mat]
Diger_ser(ser, code) == Diger_init("none", << >>, << >>, ser, code)

\* no Serder; a Serder is its _raw, _ked, _kind, _version, _size, _diger and
\* its _code
NoSerder ==
  [raw |-> << >>, ked |-> << >>, kind |-> NoKind, version |-> Version, size |-> 0,
   diger |-> NoMat, code |-> << >>]

\* the end of a setter: ._diger is assigned last, from Diger(ser=._raw,
\* code=._code) of the attributes t assigned before it, which stay assigned
\* when Diger raises: [err, ser, ked]
Serder_digested(t, d, ked) ==
  IF d.err # "ok" THEN [err |-> d.err, ser |-> t, ked |-> ked]
  ELSE [err |-> "ok", ser |-> [t EXCEPT !.diger = d.mat], ked |-> ked]

\* the attributes the ked setter and the kind setter assign from what _exhale returns
Serder_exhaled(s, x) ==
  [s EXCEPT !.raw = x.raw, !.ked = x.ked, !.kind = x.kind, !.version = x.version,
            !.size = Len(x.raw)]

\* Serder_inhaled with ._raw assigned all of the raw given
Serder_inhaled_whole(s, raw, y) ==
  [s EXCEPT !.raw = raw, !.ked = y.ked, !.kind = y.kind,
            !.version = y.version, !.size = y.size]

\* the attributes the raw setter assigns from what _inhale returns
Serder_inhaled(s, raw, y) ==
  [s EXCEPT !.raw = PySlice(raw, 0, y.size), !.ked = y.ked, !.kind = y.kind,
            !.version = y.version, !.size = y.size]

\* what a setter leaves: [err, ser, ked], ked being the dict given as the
\* call leaves it
Serder_set_exhaled(s, x) ==
  IF x.err # "ok" THEN [err |-> x.err, ser |-> s, ked |-> x.ked]
  ELSE Serder_digested(Serder_exhaled(s, x), Diger_ser(x.raw, s.code), x.ked)

\* Serder_set_inhaled with ._raw assigned before _inhale has returned
Serder_set_inhaled_early(s, raw, y) ==
  IF y.err # "ok" THEN [err |-> y.err, ser |-> [s EXCEPT !.raw = raw], ked |-> << >>]
  ELSE Serder_digested(Serder_inhaled(s, raw, y), Diger_ser(PySlice(raw, 0, y.size), s.code),
                       y.ked)

Serder_set_inhaled(s, raw, y) ==
  IF y.err # "ok" THEN [err |-> y.err, ser |-> s, ked |-> << >>]
  ELSE Serder_digested(Serder_inhaled(s, raw, y), Diger_ser(PySlice(raw, 0, y.size), s.code),
                       y.ked)

\* serder.raw = raw
Serder_set_raw(s, raw) == Serder_set_inhaled(s, raw, Inhale(raw))

\* serder.ked = ked
Serder_set_ked(s, ked) == Serder_set_exhaled(s, Exhale(ked, s.kind))

\* serder.kind = kind
Serder_set_kind(s, kind) == Serder_set_exhaled(s, Exhale(s.ked, kind))

\* Serder(raw=raw, ked=ked, kind=kind, code=code): [err, ser, ked]; when err
\* is not "ok" the constructor has raised and there is no Serder
Serder_init(raw, ked, kind, code) ==
  IF raw # << >> THEN Serder_set_raw([NoSerder EXCEPT !.code = code], raw)
  ELSE IF ked # << >> THEN Serder_set_ked([NoSerder EXCEPT !.code = code, !.kind = kind], ked)
  ELSE [err |-> "ValueError", ser |-> NoSerder, ked |-> ked]

(***************************************************************************)
(* Verfer, Signer, Prefixer                                                *)
(***************************************************************************)

Icp == <<105, 99, 112>>
Dip == <<100, 105, 112>>

\* Prefixer.Dummy, "#"
Dummy == 35

\* Verfer.__init__ after CryMat.__init__: the code must be one of a verifier
Verfer_coded(r) ==
  IF r.err # "ok" THEN r
  ELSE IF r.mat.code \notin {Ed25519N, Ed25519} THEN Fail("ValueError")
  ELSE r

\* Verfer(qb64=qb64): [err, mat]
Verfer_qb64(qb64) == Verfer_coded(CryMat_exfil(qb64))

\* Verfer.verify(sig, ser) of the verfer with the key raw
Verfer_verify(key, sig, ser) == crypto_sign_verify_detached(sig, ser, key)

\* Signer(raw=seed): the seed material, [err, mat]
Signer_raw(seed) == CryMat_init_raw(seed, Ed25519_Seed, 0)

\* what a derivation returns: [err, raw, code], and ked, the dict given as
\* the call leaves it
DFail(e, ked) == [err |-> e, raw |-> << >>, code |-> << >>, ked |-> ked]

Derive_wrapped(r) == IF r.err # "ok" THEN Fail("DerivationError") ELSE r

\* keys = ked["k"], one key, verfer = Verfer(qb64=keys[0]); any error is a
\* DerivationError
Derive_verfer(ked) ==
  IF ~Has(ked, Lk) THEN Fail("DerivationError")
  ELSE IF Len(Get(ked, Lk).l) # 1 THEN Fail("DerivationError")
  ELSE Derive_wrapped(Verfer_qb64(Get(ked, Lk).l[1]))

\* Derive_basic without the check of n
Derive_basic_anynxt(ked, v, code) ==
  IF v.err # "ok" THEN DFail(v.err, ked)
  ELSE IF v.mat.code # code THEN DFail("DerivationError", ked)
  ELSE [err |-> "ok", raw |-> v.mat.raw, code |-> v.mat.code, ked |-> ked]

Derive_basic(ked, v, code) ==
  IF v.err # "ok" THEN DFail(v.err, ked)
  ELSE IF v.mat.code # code THEN DFail("DerivationError", ked)
  ELSE IF code = Ed25519N /\ (~Has(ked, Ln) \/ Truthy(Get(ked, Ln)))
  THEN DFail("DerivationError", ked)
  ELSE [err |-> "ok", raw |-> v.mat.raw, code |-> v.mat.code, ked |-> ked]

\* Prefixer._derive_ed25519N / Prefixer._derive_ed25519
derive_ed25519(ked, code) == Derive_basic(ked, Derive_verfer(ked), code)

\* the ilk must be an inception ilk and the dummy prefix of n chars is put
\* into a copy of ked, which is serialised: what Serder(ked=ked) exhales,
\* the ked of the result being the copy
Derive_serder(ked, n) ==
  IF ~Has(ked, Lt) THEN ExFail("KeyError", ked)
  ELSE IF Get(ked, Lt) \notin {Str(Icp), Str(Dip)} THEN ExFail("DerivationError", ked)
  ELSE Exhale(Put(ked, Li, Str(Rep(Dummy, n))), NoKind)

\* the digest is of the serialisation of the caller's dict itself
Derive_digest_nocopy(ked, x) ==
  IF x.err # "ok" THEN DFail(x.err, x.ked)
  ELSE [err |-> "ok", raw |-> blake3(x.raw), code |-> Blake3_256, ked |-> x.ked]

Derive_digest(ked, x) ==
  IF x.err # "ok" THEN DFail(x.err, ked)
  ELSE [err |-> "ok", raw |-> blake3(x.raw), code |-> Blake3_256, ked |-> ked]

\* Prefixer._derive_blake3_256
derive_blake3_256(ked) == Derive_digest(ked, Derive_serder(ked, CryOneSizes[Blake3_256]))

Derive_signed(ked, ser, v, sg) ==
  IF sg.err # "ok" THEN DFail(sg.err, ked)
  ELSE IF v.mat.raw # crypto_sign_seed_keypair(sg.mat.raw) THEN DFail("DerivationError", ked)
  ELSE [err |-> "ok", raw |-> crypto_sign_detached(ser, v.mat.raw), code |-> CryTwo_Ed25519,
        ked |-> ked]

Derive_signer(ked, ser, v, seed) ==
  IF v.err # "ok" THEN DFail(v.err, ked)
  ELSE IF v.mat.code # Ed25519 THEN DFail("DerivationError", ked)
  ELSE IF seed = << >> THEN DFail("DerivationError", ked)
  ELSE Derive_signed(ked, ser, v, Signer_raw(seed))

Derive_sig(ked, x, seed) ==
  IF x.err # "ok" THEN DFail(x.err, ked)
  ELSE Derive_signer(ked, x.raw, Derive_verfer(x.ked), seed)

\* Prefixer._derive_sig_ed25519
derive_sig_ed25519(ked, seed) ==
  Derive_sig(ked, Derive_serder(ked, CryTwoSizes[CryTwo_Ed25519]), seed)

\* the derivation __init__ selects by code
Prefixer_derive(ked, code, seed) ==
  CASE code \in {Ed25519N, Ed25519} -> derive_ed25519(ked, code)
    [] code = Blake3_256 -> derive_blake3_256(ked)
    [] code = CryTwo_Ed25519 -> derive_sig_ed25519(ked, seed)
    [] OTHER -> DFail("ValueError", ked)

\* a prefixer: its material and the verification __init__ selected
NoPrefixer == [mat |-> NoMat, verify |-> << >>]

PFail(e, ked) == [err |-> e, pfx |-> NoPrefixer, ked |-> ked]

\* the end of __init__: the verification is selected by self.code, the last
\* branch by the code in hand
Prefixer_verifier(r, code, ked) ==
  IF r.err # "ok" THEN PFail(r.err, ked)
  ELSE IF r.mat.code \in {Ed25519N, Ed25519, Blake3_256}
  THEN [err |-> "ok", pfx |-> [mat |-> r.mat, verify |-> r.mat.code], ked |-> ked]
  ELSE IF code = CryTwo_Ed25519
  THEN [err |-> "ok", pfx |-> [mat |-> r.mat, verify |-> CryTwo_Ed25519], ked |-> ked]
  ELSE PFail("ValueError", ked)

Prefixer_derived(d) ==
  IF d.err # "ok" THEN PFail(d.err, d.ked)
  ELSE Prefixer_verifier(CryMat_init_raw(d.raw, d.code, 0), d.code, d.ked)

\* the code __init__ derives with: the one given, else the code of ked["i"]
Prefixer_coded(ked, seed, c) ==
  IF c.err # "ok" THEN PFail(c.err, ked)
  ELSE Prefixer_derived(Prefixer_derive(ked, c.mat.code, seed))

\* Prefixer(ked=ked, code=code, seed=seed): [err, pfx, ked]
Prefixer_init_ked(ked, code, seed) ==
  IF ked = << >> \/ (code = << >> /\ ~Has(ked, Li)) THEN PFail("EmptyMaterialError", ked)
  ELSE Prefixer_coded(ked, seed,
         IF code = << >> THEN CryMat_exfil(Get(ked, Li).s)
         ELSE [err |-> "ok", mat |-> [NoMat EXCEPT !.code = code]])

\* Prefixer(raw=raw, code=code), Prefixer(qb64=qb, code=code) and
\* Prefixer(qb2=qb, code=code), code being empty when none is given: [err, pfx, ked]
Prefixer_init_mat(form, raw, qb, code) ==
  Prefixer_verifier(CASE form = "raw" -> CryMat_init_raw(raw, code, 0)
                      [] form = "qb64" -> CryMat_exfil(qb)
                      [] OTHER -> CryMat_exfil(encodeB64(qb)),
                    code, << >>)

\* what a verification returns, and ked, the dict given as the call leaves it
Verified(val, ked) == [err |-> "ok", val |-> val, ked |-> ked]

\* prefixed and ked["i"] != pre, a missing i being an error
Unprefixed(ked, pre, prefixed) == prefixed /\ (~Has(ked, Li) \/ Get(ked, Li) # Str(pre))

\* the same without the comparison of the key with the prefix
verify_ed25519_anykey(ked, pre, prefixed, code) ==
  Verified(/\ Has(ked, Lk)
           /\ Len(Get(ked, Lk).l) = 1
           /\ ~Unprefixed(ked, pre, prefixed)
           /\ code = Ed25519N => (Has(ked, Ln) /\ ~Truthy(Get(ked, Ln))),
           ked)

\* Prefixer._verify_ed25519N / Prefixer._verify_ed25519
verify_ed25519(ked, pre, prefixed, code) ==
  Verified(/\ Has(ked, Lk)
           /\ Len(Get(ked, Lk).l) = 1
           /\ Get(ked, Lk).l[1] = pre
           /\ ~Unprefixed(ked, pre, prefixed)
           /\ code = Ed25519N => (Has(ked, Ln) /\ ~Truthy(Get(ked, Ln))),
           ked)

Verify_digest(pre, prefixed, d) ==
  Verified(/\ d.err = "ok"
           /\ Mat_infil(Init_cut("CryMat", d.raw, Blake3_256, 0, CryRawSizes).mat).val = pre
           /\ ~Unprefixed(d.ked, pre, prefixed),
           d.ked)

\* Prefixer._verify_blake3_256
verify_blake3_256(ked, pre, prefixed) == Verify_digest(pre, prefixed, derive_blake3_256(ked))

Verify_cigar(ser, v, cigar) ==
  /\ v.err = "ok"
  /\ v.mat.code = Ed25519
  /\ cigar.err = "ok"
  /\ Verfer_verify(v.mat.raw, cigar.mat.raw, ser)

Verify_sig(ked, pre, prefixed, x) ==
  Verified(/\ x.err = "ok"
           /\ ~Unprefixed(ked, pre, prefixed)
           /\ Verify_cigar(x.raw, Derive_verfer(x.ked), CryMat_exfil(pre)),
           ked)

\* Prefixer._verify_sig_ed25519
verify_sig_ed25519(ked, pre, prefixed) ==
  Verify_sig(ked, pre, prefixed, Derive_serder(ked, CryTwoSizes[CryTwo_Ed25519]))

Prefixer_verify_pre(pfx, ked, pre, prefixed) ==
  CASE pfx.verify \in {Ed25519N, Ed25519} -> verify_ed25519(ked, pre, prefixed, pfx.verify)
    [] pfx.verify = Blake3_256 -> verify_blake3_256(ked, pre, prefixed)
    [] OTHER -> verify_sig_ed25519(ked, pre, prefixed)

\* Prefixer.verify(ked, prefixed): [err, val, ked]
Prefixer_verify(pfx, ked, prefixed) ==
  IF ~Has(ked, Lt) THEN [err |-> "KeyError", val |-> FALSE, ked |-> ked]
  ELSE IF Get(ked, Lt) \notin {Str(Icp), Str(Dip)}
  THEN [err |-> "ValueError", val |-> FALSE, ked |-> ked]
  ELSE Prefixer_verify_pre(pfx, ked, Mat_infil(pfx.mat).val, prefixed)

(***************************************************************************)
(* Tholder                                                                 *)
(***************************************************************************)

\* a list of lists of strings, and None
Lists(l) == [tp |-> "lists", s |-> << >>, l |-> l]
None == [tp |-> "none", s |-> << >>, l |-> << >>]

\* int(s, 16) of a text of hex digits: [err, val]
Int16(s) ==
  IF s = << >> \/ \E i \in 1..Len(s) : ~(IsHex(s[i]) \/ s[i] \in 65..70)
  THEN [err |-> "ValueError", val |-> 0]
  ELSE [err |-> "ok",
        val |-> HexToInt([i \in 1..Len(s) |-> IF s[i] \in 65..70 THEN s[i] + 32 ELSE s[i]], 1, 0)]

IsDec(cs) == cs # << >> /\ \A i \in 1..Len(cs) : cs[i] \in 48..57

DecToInt(cs) == SumRange([i \in 1..Len(cs) |-> (cs[i] - 48) * 10 ^ (Len(cs) - i)], 1, Len(cs))

Fraction_parts(num, den) ==
  IF ~IsDec(num) \/ ~IsDec(den) THEN [err |-> "ValueError", n |-> 0, d |-> 1]
  ELSE IF DecToInt(den) = 0 THEN [err |-> "ZeroDivisionError", n |-> 0, d |-> 1]
  ELSE [err |-> "ok", n |-> DecToInt(num), d |-> DecToInt(den)]

\* Fraction(w) of a text "n" or "n/d" without sign: [err, n, d]
Fraction_unsigned(w) ==
  IF \E i \in 1..Len(w) : w[i] = 47
  THEN Fraction_parts(SubSeq(w, 1, MinOf({i \in 1..Len(w) : w[i] = 47}) - 1),
                      PyFrom(w, MinOf({i \in 1..Len(w) : w[i] = 47})))
  ELSE Fraction_parts(w, <<49>>)

Fraction_signed(f, minus) == IF minus THEN [f EXCEPT !.n = 0 - f.n] ELSE f

\* Fraction(w) of a text "n" or "n/d" with or without a leading sign:
\* [err, n, d]
Fraction(w) ==
  IF w # << >> /\ w[1] \in {43, 45}
  THEN Fraction_signed(Fraction_unsigned(PyFrom(w, 1)), w[1] = 45)
  ELSE Fraction_unsigned(w)

\* the sum of the fractions fs[k..] for which on[k] holds
RECURSIVE FracSum(_, _, _)
FracSum(fs, on, k) ==
  IF k > Len(fs) THEN [n |-> 0, d |-> 1]
  ELSE IF ~on[k] THEN FracSum(fs, on, k + 1)
  ELSE [n |-> fs[k].n * FracSum(fs, on, k + 1).d + FracSum(fs, on, k + 1).n * fs[k].d,
        d |-> fs[k].d * FracSum(fs, on, k + 1).d]

AtLeastOne(f) == f.n >= f.d

NoTholder == [weighted |-> FALSE, thold |-> 0, size |-> 0, limen |-> << >>]

TFail(e) == [err |-> e, th |-> NoTholder]

\* Tholder_numeric accepting the threshold 0
Tholder_numeric_zero(sith, n) ==
  IF n.err # "ok" THEN TFail(n.err)
  ELSE IF n.val < 0 THEN TFail("ValueError")
  ELSE [err |-> "ok",
        th |-> [weighted |-> FALSE, thold |-> n.val, size |-> n.val, limen |-> sith]]

Tholder_numeric(sith, n) ==
  IF n.err # "ok" THEN TFail(n.err)
  ELSE IF n.val < 1 THEN TFail("ValueError")
  ELSE [err |-> "ok",
        th |-> [weighted |-> FALSE, thold |-> n.val, size |-> n.val, limen |-> sith]]

\* the weighted branch of __init__ after the conversion of the clauses to
\* fractions, errs being the errors of the conversions in their order
Tholder_weighted(sith, thold, errs) ==
  IF errs # << >> THEN TFail(errs[1])
  ELSE IF \E c \in 1..Len(thold) :
            ~AtLeastOne(FracSum(thold[c], [k \in 1..Len(thold[c]) |-> TRUE], 1))
  THEN TFail("ValueError")
  ELSE [err |-> "ok",
        th |-> [weighted |-> TRUE, thold |-> thold,
                size |-> SumRange([c \in 1..Len(thold) |-> Len(thold[c])], 1, Len(thold)),
                limen |-> Join([c \in 1..Len(sith) |-> Join(sith[c], <<44>>)], <<38>>)]]

Tholder_fractions(sith, fr) ==
  Tholder_weighted(sith, fr,
    SelectSeq(Flatten([c \in 1..Len(fr) |-> [k \in 1..Len(fr[c]) |-> fr[c][k].err]]),
              LAMBDA e : e # "ok"))

Tholder_clauses(sith) ==
  IF sith = << >> THEN TFail("ValueError")
  ELSE Tholder_fractions(sith,
         [c \in 1..Len(sith) |-> [k \in 1..Len(sith[c]) |-> Fraction(sith[c][k])]])

\* Tholder(sith=sith): [err, th]
Tholder_init(sith) ==
  CASE sith.tp = "str" -> Tholder_numeric(sith.s, Int16(sith.s))
    [] sith.tp = "list" -> Tholder_clauses(IF sith.l = << >> THEN << >> ELSE <<sith.l>>)
    [] sith.tp = "lists" -> Tholder_clauses(sith.l)
    [] OTHER -> TFail("ValueError")

\* Tholder._satisfy_numeric
satisfy_numeric(th, indices) == Len(indices) >= th.thold

\* Satisfy_clauses with the weight index offset wio started anew at each clause
Satisfy_clauses_rewound(thold, sats) ==
  \A c \in 1..Len(thold) :
    AtLeastOne(FracSum(thold[c], [k \in 1..Len(thold[c]) |-> sats[k - 1]], 1))

\* Satisfy_clauses returning at the first clause that reaches its weight
Satisfy_clauses_any(thold, sats) ==
  \E c \in 1..Len(thold) :
    AtLeastOne(FracSum(thold[c],
      [k \in 1..Len(thold[c]) |->
        sats[SumRange([b \in 1..Len(thold) |-> Len(thold[b])], 1, c - 1) + k - 1]], 1))

\* the clauses of _satisfy_weighted over the marks sats (from 0)
Satisfy_clauses(thold, sats) ==
  \A c \in 1..Len(thold) :
    AtLeastOne(FracSum(thold[c],
      [k \in 1..Len(thold[c]) |->
        sats[SumRange([b \in 1..Len(thold) |-> Len(thold[b])], 1, c - 1) + k - 1]], 1))

\* Tholder._satisfy_weighted: an index out of the list of marks is an error,
\* which gives False, a negative one within it counts from the end
satisfy_weighted(th, indices) ==
  /\ indices # << >>
  /\ \A k \in 1..Len(indices) : indices[k] \in (0 - th.size)..(th.size - 1)
  /\ Satisfy_clauses(th.thold,
       [p \in 0..(th.size - 1) |->
          \E k \in 1..Len(indices) : indices[k] = p \/ indices[k] + th.size = p])

\* Tholder.satisfy(indices)
satisfy(th, indices) ==
  IF th.weighted THEN satisfy_weighted(th, indices) ELSE satisfy_numeric(th, indices)

(***************************************************************************)
(* Nexter                                                                  *)
(***************************************************************************)

XorByte(a, b) ==
  SumRange([i \in 0..7 |-> ((((a \div 2 ^ i) % 2) + ((b \div 2 ^ i) % 2)) % 2) * 2 ^ i], 0, 7)

\* sint ^= kint for each of the digests ds[k..], as bytes
RECURSIVE XorAll(_, _, _)
XorAll(ds, k, acc) ==
  IF k > Len(ds) THEN acc
  ELSE XorAll(ds, k + 1, [i \in 1..Len(acc) |-> XorByte(acc[i], ds[k][i])])

NFail(e) == [err |-> e, raw |-> << >>]

\* Diger(qb64=dig): [err, mat]
Diger_qb64(dig) == Diger_init("qb64b", << >>, dig, << >>, Blake3_256)

\* the key digests xored into the digest of the limen, the first one only
Nexter_xor_first(keydigs, t) ==
  IF t.err # "ok" THEN NFail(t.err)
  ELSE [err |-> "ok", raw |-> XorAll(<<keydigs[1]>>, 1, blake3(t.th.limen))]

Nexter_xor(keydigs, t) ==
  IF t.err # "ok" THEN NFail(t.err)
  ELSE [err |-> "ok", raw |-> XorAll(keydigs, 1, blake3(t.th.limen))]

\* Nexter_limen with ked["kt"] taken before the sith given
Nexter_limen_kt_first(keydigs, limen, sith, ked) ==
  Nexter_xor(keydigs,
    IF limen # None THEN [err |-> "ok", th |-> [NoTholder EXCEPT !.limen = limen.s]]
    ELSE IF Has(ked, Lkt) THEN Tholder_init(Get(ked, Lkt))
    ELSE IF sith # None THEN Tholder_init(sith)
    ELSE Tholder_init(Str(HexDigits(IF Len(keydigs) < 2 THEN 1 ELSE (Len(keydigs) + 1) \div 2))))

\* the limen of _derive: the one given, else of the sith given, else of
\* ked["kt"], else of the simple majority
Nexter_limen(keydigs, limen, sith, ked) ==
  Nexter_xor(keydigs,
    IF limen # None THEN [err |-> "ok", th |-> [NoTholder EXCEPT !.limen = limen.s]]
    ELSE IF sith # None THEN Tholder_init(sith)
    ELSE IF Has(ked, Lkt) THEN Tholder_init(Get(ked, Lkt))
    ELSE Tholder_init(Str(HexDigits(IF Len(keydigs) < 2 THEN 1 ELSE (Len(keydigs) + 1) \div 2))))

Nexter_digers(code, digers, limen, sith, ked) ==
  IF \E i \in 1..Len(digers) : digers[i].err # "ok"
  THEN NFail(digers[MinOf({i \in 1..Len(digers) : digers[i].err # "ok"})].err)
  ELSE IF \E i \in 1..Len(digers) : digers[i].mat.code # code THEN NFail("DerivationError")
  ELSE Nexter_limen([i \in 1..Len(digers) |-> digers[i].mat.raw], limen, sith, ked)

Nexter_keys(keys, limen, sith, ked) ==
  IF keys = << >> THEN NFail("DerivationError")
  ELSE Nexter_limen([i \in 1..Len(keys) |-> blake3(keys[i])], limen, sith, ked)

\* Nexter._derive: [err, raw]; ked << >> is no ked
Nexter_derive(code, limen, sith, digs, keys, ked) ==
  IF digs # << >>
  THEN Nexter_digers(code, [i \in 1..Len(digs) |-> Diger_qb64(digs[i])], limen, sith, ked)
  ELSE IF keys # << >> THEN Nexter_keys(keys, limen, sith, ked)
  ELSE IF ked = << >> THEN NFail("TypeError")
  ELSE IF ~Has(ked, Lk) THEN NFail("DerivationError")
  ELSE Nexter_keys(Get(ked, Lk).l, limen, sith, ked)

Nexter_made(code, d) ==
  IF d.err # "ok" THEN Fail(d.err) ELSE CryMat_init_raw(d.raw, code, 0)

\* Nexter(limen, sith, digs, keys, ked, code): [err, mat]
Nexter_init(limen, sith, digs, keys, ked, code) ==
  IF digs = << >> /\ keys = << >> /\ ked = << >> THEN Fail("EmptyMaterialError")
  ELSE IF code # Blake3_256 THEN Fail("ValueError")
  ELSE Nexter_made(code, Nexter_derive(code, limen, sith, digs, keys, ked))

\* Nexter.verify(raw, limen, sith, digs, keys, ked) of the nexter nx:
\* [err, val]
Nexter_verified(nx, d) ==
  IF d.err # "ok" THEN [err |-> d.err, val |-> FALSE]
  ELSE [err |-> "ok", val |-> d.raw = nx.raw]

Nexter_verify(nx, raw, limen, sith, digs, keys, ked) ==
  Nexter_verified(nx, IF raw # << >> THEN [err |-> "ok", raw |-> raw]
                      ELSE Nexter_derive(nx.code, limen, sith, digs, keys, ked))

(***************************************************************************)
(* State                                                                   *)
(***************************************************************************)

VARIABLES
  \* a CryMat / SigMat object and the calls made on it
  mat,    \* the object's _code, _index, _raw (NoMat: construction failed)
  via,    \* how mat was constructed: "none", "raw" or "exfil"
  args,   \* the (cls, raw, code, index) last given to the constructor
  buf,    \* the buffer last given to _exfil
  qb,     \* [err, val]: what the last _infil returned
  src,    \* the material the last _infil emitted
  mres,   \* outcome of the last call
  mop     \* the last call: "none", "init", "infil", "exfil"

matVars == <<mat, via, args, buf, qb, src, mres, mop>>

VARIABLES
  \* a caller's key event dict and the objects made from it
  cked,     \* the dict the caller gave to the last call, as the call left it
  cked0,    \* that dict as it was before the call
  ser,      \* a Serder: _raw, _ked, _kind, _version, _size, _diger, _code (NoSerder: none)
  ser0,     \* the Serder before the last setter call
  shared,   \* ser._ked is the caller's dict itself
  sin,      \* the raw last given to Serder
  kin,      \* the kind last given to Serder
  pfx,      \* a Prefixer (NoPrefixer: none)
  dked,     \* the dict pfx was derived from
  pargs,    \* the (code, seed) pfx was derived with
  prefixed, \* the prefixed flag last given to Prefixer.verify
  nxt,      \* a Nexter (NoMat: none)
  sgn,      \* the (key, sig, ser) last given to Verfer.verify
  kval,     \* what the last verify returned
  kres,     \* outcome of the last call
  kop       \* the last call

kedVars ==
  <<cked, cked0, ser, ser0, shared, sin, kin, pfx, dked, pargs, prefixed, nxt, sgn, kval, kres, kop>>

VARIABLES
  \* a Tholder and the calls made on it
  th,       \* the Tholder: weighted, thold, size, limen (NoTholder: none)
  sith,     \* the sith last given to the constructor
  indices,  \* the indices last given to satisfy
  tval,     \* what the last satisfy returned
  tres,     \* outcome of the last call
  top       \* the last call

thVars == <<th, sith, indices, tval, tres, top>>

VARIABLES
  \* two Digers and the comparison made of them
  dga,      \* the Diger compare is called on (NoMat: none)
  dgb,      \* the other Diger (NoMat: none)
  dgargs,   \* the (ser, given) last given to compare
  dgval,    \* what the last compare returned
  dgn,      \* the number of digests the last compare computed
  dgres,    \* outcome of the last call
  dgop      \* the last call

digVars == <<dga, dgb, dgargs, dgval, dgn, dgres, dgop>>

VARIABLES
  \* a Nexter and the calls made on it
  nxa,      \* the Nexter's material (NoMat: none)
  nxargs,   \* the (limen, sith, digs, keys, ked) given to the constructor
  nxv,      \* the (limen, sith, digs, keys, ked) last given to verify
  nxval,    \* what the last verify returned
  nxres,    \* outcome of the last call
  nxop      \* the last call

nxVars == <<nxa, nxargs, nxv, nxval, nxres, nxop>>

VARIABLES
  \* version strings and the calls made on them
  vtargs,   \* the (version, kind, size) last given to Versify
  vtag,     \* [err, val]: what the last Versify returned
  vtin,     \* the text last given to Deversify
  vtres,    \* [err, kind, version, size]: what the last Deversify returned
  vtop      \* the last call

vtVars == <<vtargs, vtag, vtin, vtres, vtop>>

vars == <<matVars, kedVars, thVars, digVars, nxVars, vtVars>>

(***************************************************************************)
(* Inputs of the material codec                                            *)
(***************************************************************************)

\* number of fill bytes a raw is drawn from
NumFill == 2

\* the k-th fill byte: 0, 255, 254, ...
FillByte(k) == (255 * k) % 256

\* raws of n bytes: constant fills and ramps
RawSamples(n) ==
  { Rep(FillByte(k), n) : k \in 0..(NumFill - 1) }
    \cup { [i \in 1..n |-> (37 * i + FillByte(k)) % 256] : k \in 0..(NumFill - 1) }

\* lengths around the raw size of a code
LenOffsets == {-3, -1, 0, 1, 3}

CryCodeInputs ==
  CryOneDex \cup CryTwoDex \cup CryFourDex \cup CryCntDex
    \cup { Enc(<<"Z">>), Enc(<<"1", "A", "A", "F">>) }

SigCodeInputs == SigTwoDex \cup SigFourDex \cup SigCntDex \cup { Enc(<<"C">>) }

\* raw size of a code for drawing inputs (0C has none: draw as for 0B)
InputRawSize(cls, code) ==
  IF cls = "CryMat"
  THEN IF code \in DOMAIN CryRawSizes THEN CryRawSizes[code]
       ELSE IF Len(code) = 2 THEN 64 ELSE IF Len(code) = 4 THEN 33 ELSE 32
  ELSE IF code \in DOMAIN SigRawSizes THEN SigRawSizes[code] ELSE 64

Indexed(cls, code) ==
  IF cls = "CryMat" THEN code \in CryCntDex ELSE code \in DOMAIN SigSizes

IndexInputs(cls, code) ==
  IF Indexed(cls, code) THEN {-1, 0, 3, 63, 64, 4095, 4096} ELSE {0, 5}

RawInputs(cls, code) ==
  UNION { RawSamples(InputRawSize(cls, code) + d) :
            d \in {d \in LenOffsets : InputRawSize(cls, code) + d >= 0} }

\* q with its last char replaced by the next char of the Base64 alphabet
TweakLast(q) ==
  LET c == q[Len(q)]
      i == IF c \in DOMAIN B64IdxByChr THEN B64IdxByChr[c] ELSE 0
  IN  [q EXCEPT ![Len(q)] = B64ChrByIdx[(i + 1) % 64]]

\* q with each "-" written "+" and each "_" written "/" after the code
StdAlphabet(q, cs) ==
  [k \in 1..Len(q) |->
     IF k <= cs THEN q[k]
     ELSE IF q[k] = Ord("-") THEN Ord("+")
     ELSE IF q[k] = Ord("_") THEN Ord("/") ELSE q[k]]

\* buffers derived from an emitted qb64 q of a code of cs chars
OwnBuffers(q, cs) ==
  IF Len(q) = 0 THEN { }
  ELSE { q, PySlice(q, 0, 10), q \o Enc(<<"A", "A", "A">>), q \o q,
         TweakLast(q), StdAlphabet(q, cs), [q EXCEPT ![Len(q)] = Ord("#")] }

\* buffers whose head selects no entry, or an entry without sizes
CraftedBuffers ==
  { Rep(Ord("#"), 44), Rep(Ord("Z"), 44), Enc(<<"0", "C">>) \o Rep(Ord("A"), 86),
    Enc(<<"0", "D">>) \o Rep(Ord("A"), 86), Enc(<<"1", "A", "A", "F">>) \o Rep(Ord("A"), 44),
    Enc(<<"-", "C", "A", "A">>), Enc(<<"-", "A", "#", "A">>), Enc(<<"2", "A", "A", "A">>),
    Enc(<<"B", "A">>) }

\* the chars of index of a code of either class (none without index chars)
IndexChars(cls, code, index) ==
  IF cls = "CryMat"
  THEN IF code \in DOMAIN CryIdxSizes THEN IntToB64(index, CryIdxSizes[code]) ELSE << >>
  ELSE IF code \in DOMAIN SigIdxSizes THEN IntToB64(index, SigIdxSizes[code]) ELSE << >>

\* the qualified stream of (raw, code, index): the code, the chars of the
\* index and the Base64URL text of raw less its pad chars
Qualified(cls, raw, code, index) ==
  code \o IndexChars(cls, code, index)
    \o SubSeq(encodeB64(raw), 1, Len(encodeB64(raw)) - Pad(raw))

\* the (raw, code, index) of the streams fed: every code of the codices of
\* either class, raws of the raw size of the code, indexes the code can hold
StreamInputs ==
  UNION { { [cls |-> "CryMat", raw |-> r, code |-> c, index |-> i] :
              r \in RawSamples(InputRawSize("CryMat", c)),
              i \in IF c \in CryCntDex THEN {0, 3} ELSE {0} } :
          c \in CryOneDex \cup CryTwoDex \cup CryFourDex \cup CryCntDex }
    \cup UNION { { [cls |-> "SigMat", raw |-> r, code |-> c, index |-> i] :
                     r \in RawSamples(InputRawSize("SigMat", c)), i \in {0, 3} } :
                 c \in SigTwoDex \cup SigFourDex \cup SigCntDex }

(***************************************************************************)
(* Calls on a material                                                     *)
(***************************************************************************)

MatInit ==
  /\ mat = NoMat
  /\ via = "none"
  /\ args = [cls |-> "none", raw |-> << >>, code |-> << >>, index |-> 0]
  /\ buf = << >>
  /\ qb = [err |-> "none", val |-> << >>]
  /\ src = NoMat
  /\ mres = "none"
  /\ mop = "none"

KedInit ==
  /\ cked = << >>
  /\ cked0 = << >>
  /\ ser = NoSerder
  /\ ser0 = NoSerder
  /\ shared = FALSE
  /\ sin = << >>
  /\ kin = << >>
  /\ pfx = NoPrefixer
  /\ dked = << >>
  /\ pargs = [code |-> << >>, seed |-> << >>]
  /\ prefixed = FALSE
  /\ nxt = NoMat
  /\ sgn = [key |-> << >>, sig |-> << >>, ser |-> << >>]
  /\ kval = FALSE
  /\ kres = "none"
  /\ kop = "none"

ThInit ==
  /\ th = NoTholder
  /\ sith = None
  /\ indices = << >>
  /\ tval = FALSE
  /\ tres = "none"
  /\ top = "none"

DigInit ==
  /\ dga = NoMat
  /\ dgb = NoMat
  /\ dgargs = [ser |-> << >>, given |-> "none"]
  /\ dgval = FALSE
  /\ dgn = 0
  /\ dgres = "none"
  /\ dgop = "none"

NoArgs == [limen |-> None, sith |-> None, digs |-> << >>, keys |-> << >>, ked |-> << >>]

NexInit ==
  /\ nxa = NoMat
  /\ nxargs = NoArgs
  /\ nxv = NoArgs
  /\ nxval = FALSE
  /\ nxres = "none"
  /\ nxop = "none"

VtInit ==
  /\ vtargs = [version |-> Version, kind |-> NoKind, size |-> 0]
  /\ vtag = [err |-> "none", val |-> << >>]
  /\ vtin = << >>
  /\ vtres = ReverGroups(<< >>, 0)
  /\ vtop = "none"

Init == MatInit /\ KedInit /\ ThInit /\ DigInit /\ NexInit /\ VtInit

\* CryMat(raw=raw, code=code, index=index) / SigMat(raw=raw, code=code, index=index)
MatFromRaw ==
  /\ mop = "none"
  /\ \E cls \in {"CryMat", "SigMat"} :
    \E code \in (IF cls = "CryMat" THEN CryCodeInputs ELSE SigCodeInputs) :
      \E raw \in RawInputs(cls, code), index \in IndexInputs(cls, code) :
        \E r \in {Mat_init_raw(cls, raw, code, index)} :
        /\ mat' = r.mat
        /\ via' = IF r.err = "ok" THEN "raw" ELSE "none"
        /\ args' = [cls |-> cls, raw |-> raw, code |-> code, index |-> index]
        /\ buf' = << >>
        /\ qb' = [err |-> "none", val |-> << >>]
        /\ src' = NoMat
        /\ mres' = r.err
        /\ mop' = "init"
  /\ UNCHANGED <<kedVars, thVars, digVars, nxVars, vtVars>>

\* mat.qb64b
MatInfil ==
  /\ mat # NoMat
  /\ mop # "infil"
  /\ \E r \in {Mat_infil(mat)} : qb' = r /\ mres' = r.err
  /\ src' = mat
  /\ mop' = "infil"
  /\ UNCHANGED <<mat, via, args, buf>>
  /\ UNCHANGED <<kedVars, thVars, digVars, nxVars, vtVars>>

\* CryMat(qb64b=b) / SigMat(qb64b=b) on a buffer derived from the emitted qb64
MatExfilOwn ==
  /\ mop = "infil"
  /\ via = "raw"
  /\ qb.err = "ok"
  /\ \E b \in OwnBuffers(qb.val, Len(qb.val) - Len(PySlice(encodeB64(src.raw), 0, 0 - Pad(src.raw)))) :
       \E r \in {Mat_exfil(src.cls, b)} :
       /\ mat' = r.mat
       /\ via' = IF r.err = "ok" THEN "exfil" ELSE "none"
       /\ buf' = b
       /\ mres' = r.err
       /\ mop' = "exfil"
       /\ UNCHANGED <<args, qb, src>>
  /\ UNCHANGED <<kedVars, thVars, digVars, nxVars, vtVars>>

\* CryMat(qb64b=b) / SigMat(qb64b=b) on a buffer that is no qualified material
MatExfilCrafted ==
  /\ mop = "none"
  /\ \E cls \in {"CryMat", "SigMat"}, b \in CraftedBuffers :
       \E r \in {Mat_exfil(cls, b)} :
       /\ mat' = r.mat
       /\ via' = IF r.err = "ok" THEN "exfil" ELSE "none"
       /\ args' = [cls |-> cls, raw |-> << >>, code |-> << >>, index |-> 0]
       /\ buf' = b
       /\ mres' = r.err
       /\ mop' = "exfil"
       /\ UNCHANGED <<qb, src>>
  /\ UNCHANGED <<kedVars, thVars, digVars, nxVars, vtVars>>

\* CryMat(qb64b=b) / SigMat(qb64b=b) on the first 10 bytes of a
\* qualified stream
MatExfilHead ==
  /\ mop = "none"
  /\ \E i \in StreamInputs :
       \E r \in {Mat_exfil(i.cls, PySlice(Qualified(i.cls, i.raw, i.code, i.index), 0, 10))} :
       /\ mat' = r.mat
       /\ via' = IF r.err = "ok" THEN "exfil" ELSE "none"
       /\ args' = i
       /\ buf' = PySlice(Qualified(i.cls, i.raw, i.code, i.index), 0, 10)
       /\ mres' = r.err
       /\ mop' = "head"
       /\ UNCHANGED <<qb, src>>
  /\ UNCHANGED <<kedVars, thVars, digVars, nxVars, vtVars>>

\* after a ShortageError the caller appends the rest of the stream to the
\* buffer and calls CryMat(qb64b=b) / SigMat(qb64b=b) again
MatExfilMore ==
  /\ mop = "head"
  /\ mres = "ShortageError"
  /\ \E b \in {Qualified(args.cls, args.raw, args.code, args.index)} :
       \E r \in {Mat_exfil(args.cls, b)} :
       /\ mat' = r.mat
       /\ via' = IF r.err = "ok" THEN "exfil" ELSE "none"
       /\ buf' = b
       /\ mres' = r.err
       /\ mop' = "more"
       /\ UNCHANGED <<args, qb, src>>
  /\ UNCHANGED <<kedVars, thVars, digVars, nxVars, vtVars>>

\* bytes that follow a material in a stream: none, Base64 chars, chars
\* outside Base64, another material
TrailInputs ==
  { << >>, <<65>>, <<65, 65, 65>>, <<35, 61, 10>>, Qualified("CryMat", Rep(1, 32), Ed25519, 0) }

\* CryMat(qb64b=b) / SigMat(qb64b=b) on a qualified stream followed by
\* more bytes
MatExfilStream ==
  /\ mop = "none"
  /\ \E i \in StreamInputs, t \in TrailInputs :
       \E b \in {Qualified(i.cls, i.raw, i.code, i.index) \o t} :
       \E r \in {Mat_exfil(i.cls, b)} :
       /\ mat' = r.mat
       /\ via' = IF r.err = "ok" THEN "exfil" ELSE "none"
       /\ args' = i
       /\ buf' = b
       /\ mres' = r.err
       /\ mop' = "stream"
       /\ UNCHANGED <<qb, src>>
  /\ UNCHANGED <<kedVars, thVars, digVars, nxVars, vtVars>>

MatNext ==
  \/ MatFromRaw \/ MatInfil \/ MatExfilOwn \/ MatExfilCrafted
  \/ MatExfilHead \/ MatExfilMore \/ MatExfilStream

SpecMat == Init /\ [][MatNext]_vars

(***************************************************************************)
(* Properties of the material codec                                        *)
(***************************************************************************)

\* full_len(code) of a material
FullLen(m) == IF m.cls = "CryMat" THEN CrySizes[m.code] ELSE SigSizes[m.code]

\* the index is one a caller may give for the code: any accepted index of a
\* code with index chars, the default 0 of a code without
ValidIndex(m) == m.cls = "SigMat" \/ m.code \in CryCntDex \/ m.index = 0

\* the last call parsed the very qb64 the material src emitted
ParsedOwn == mop = "exfil" /\ qb.err = "ok" /\ buf = qb.val

\* C1: building a material from (raw, code, index), emitting its qb64 and
\* parsing that qb64 returns the same (raw, code, index), for every code of
\* the one-char, two-char, four-char and count tables.
C1_RoundTrip ==
  (ParsedOwn /\ src.cls = "CryMat" /\ ValidIndex(src)) => (mres = "ok" /\ mat = src)

\* the last call emitted the qb64 of a material that was parsed from buf
ReEmitted == mop = "infil" /\ via = "exfil"

\* C2: for every buffer that exfil accepts, re-encoding the parsed material
\* yields the first full_len(code) bytes of the buffer, byte for byte, also
\* when the last Base64 char carries non-zero unused low bits.
C2_ReEncode ==
  ReEmitted => (qb.err = "ok" /\ qb.val = PySlice(buf, 0, FullLen(src)))

\* C3: infil emits the code with its index chars followed by the Base64URL
\* text of raw less exactly pad trailing chars (none for pad = 0), which are
\* full_len(code) chars in all, for material and indexed signature codes.
C3_InfilEmits ==
  (mop = "infil" /\ via = "raw" /\ qb.err = "ok") =>
     /\ Len(qb.val) = FullLen(src)
     /\ \E full \in {Infil_full(src.code, src.index,
                                IF src.cls = "CryMat" THEN CryIdxSizes ELSE SigIdxSizes)} :
          qb.val = full \o SubSeq(encodeB64(src.raw), 1,
                                  Len(encodeB64(src.raw)) - Pad(src.raw))

\* C15: exfil on the first 10 bytes of a valid qualified stream signals
\* Shortage and assigns no code, raw or index; once the caller has appended
\* the bytes up to full_len(code), exfil on the buffer succeeds.
C15_ShortageThenMore ==
  /\ (mop = "head" /\ args.cls = "CryMat") => (mres = "ShortageError" /\ mat = NoMat)
  /\ (mop = "more" /\ args.cls = "CryMat")
       => (mres = "ok" /\ mat.code = args.code /\ mat.raw = args.raw /\ mat.index = args.index)

\* the codes the four codices of CryMat list
CryListed == CryOneDex \cup CryTwoDex \cup CryFourDex \cup CryCntDex

\* the leading chars of the buffer b select the entry of a listed code
SelectsListed(b) ==
  \/ PySlice(b, 0, 1) \in CryOneDex
  \/ PySlice(b, 0, 1) = CrySelDex_two /\ PySlice(b, 0, 2) \in CryTwoDex
  \/ PySlice(b, 0, 1) = CrySelDex_four /\ PySlice(b, 0, 4) \in CryFourDex
  \/ PySlice(b, 0, 1) = CrySelDex_dash /\ PySlice(b, 0, 2) \in CryCntDex

\* the last call parsed a buffer as a CryMat
CryParsed == mop \in {"exfil", "head", "more"} /\ args.cls = "CryMat"

\* C16: the code lookup is total: constructing from raw and parsing qb64
\* under a code listed in the one-char, two-char (0A, 0B, 0C), four-char or
\* count codex give a material, a Shortage or a Validation error, and a
\* buffer whose leading chars select no table entry gives a Validation error
\* (ValidationError, or the ValueError raised for content that is not valid).
C16_LookupTotal ==
  /\ (mop = "init" /\ args.cls = "CryMat" /\ args.code \in CryListed)
       => mres \in {"ok", "ShortageError", "ValidationError", "ValueError"}
  /\ (CryParsed /\ SelectsListed(buf))
       => mres \in {"ok", "ShortageError", "ValidationError", "ValueError"}
  /\ (CryParsed /\ Len(buf) >= MINCRYSIZE /\ ~SelectsListed(buf))
       => mres \in {"ValidationError", "ValueError"}

\* the code of the material m has index chars: a count code of CryMat, or a
\* code of SigMat
HoldsIndex(m) == m.cls = "SigMat" \/ m.code \in CryCntDex

\* C17: the index of a constructed material is non-zero only under a count
\* code or an indexed signature code, and within 0..4095 under a count code;
\* constructing with a non-zero index under another code, or with a count
\* index outside 0..4095, gives no material that holds that index.
C17_IndexByCode ==
  /\ mat # NoMat =>
       /\ mat.index # 0 => HoldsIndex(mat)
       /\ mat.code \in CryCntDex \cup SigCntDex => mat.index \in 0..CRYCNTMAX
  /\ (mop = "init" /\ (args.index \notin 0..CRYCNTMAX \/ (args.index # 0 /\ ~HoldsIndex(args))))
       => ~(mres = "ok" /\ mat.index = args.index)


(***************************************************************************)
(* Inputs of the key event operations                                      *)
(***************************************************************************)

Ls == <<115>>
La == <<97>>
Rot == <<114, 111, 116>>

\* a signing seed and another one
Seed == [i \in 1..32 |-> (11 * i) % 256]
OtherSeed == Rep(1, 32)

\* qb64 of raw under a code
Qb64(raw, code) == Mat_infil(Init_cut("CryMat", raw, code, 0, CryRawSizes).mat).val

\* the verification key of Seed, and its qb64 under a code
VerKey == crypto_sign_seed_keypair(Seed)
KeyText(code) == Qb64(VerKey, code)

\* the version string of a kind with size 0
Vs0(kind) == Versify(Version, kind, 0)

\* an establishment event
Event(v, t, kt, k, n) ==
  << <<Lv, Str(v)>>, <<Li, Str(<< >>)>>, <<Ls, Str(<<48>>)>>, <<Lt, Str(t)>>,
     <<Lkt, kt>>, <<Lk, List(k)>>, <<Ln, Str(n)>> >>

\* d less the field of a label
Without(d, label) == SelectSeq(d, LAMBDA e : e[1] # label)

\* dicts given to Serder: v alone, events of each kind, v after another
\* field, a field before v holding a version string, quotes and backslashes,
\* lists, v late, a field after v holding a version string, no v, v naming
\* no kind, v of another version, v malformed
KedInputs ==
  { << <<Lv, Str(Vs0(JSON))>> >>,
    Event(Vs0(JSON), Icp, Str(<<49>>), <<KeyText(Ed25519)>>, << >>),
    Event(Vs0(MGPK), Icp, Str(<<49>>), <<KeyText(Ed25519)>>, << >>),
    Event(Vs0(CBOR), Dip, Str(<<49>>), <<KeyText(Ed25519N)>>, << >>),
    Event(Versify(Version, JSON, 4095), Icp, Str(<<49>>), <<KeyText(Ed25519)>>, << >>),
    << <<La, Str(<<120>>)>>, <<Lv, Str(Vs0(JSON))>> >>,
    << <<La, Str(Vs0(JSON))>>, <<Lv, Str(Vs0(CBOR))>> >>,
    << <<Lv, Str(Vs0(JSON))>>, <<Lt, Str(<<97, 34, 98, 92, 99>>)>>,
       <<Lk, List(<<KeyText(Ed25519), KeyText(Ed25519N)>>)>>, <<Ln, List(<< >>)>> >>,
    << <<Lkt, Str(Rep(120, 12))>>, <<Lv, Str(Vs0(JSON))>> >>,
    << <<Lv, Str(Vs0(JSON))>>, <<Lt, Str(Icp)>>, <<La, Str(Vs0(MGPK))>> >>,
    << <<Lt, Str(Icp)>> >>,
    << <<Lv, Str(Versify(Version, <<88, 88, 88, 88>>, 0))>>, <<Lt, Str(Icp)>> >>,
    << <<Lv, Str(Versify([major |-> 2, minor |-> 0], JSON, 0))>>, <<Lt, Str(Icp)>> >>,
    << <<Lv, Str(<<75, 69, 82, 73>>)>>, <<Lt, Str(Icp)>> >> }

\* the (ked, code) given to Serder: each dict with the default code for the
\* diger, and events with another digest code and with the code of a key
SerderInputs ==
  { [ked |-> d, code |-> Blake3_256] : d \in KedInputs \cup {<< >>} }
    \cup { [ked |-> Event(Vs0(k), Icp, Str(<<49>>), <<KeyText(Ed25519)>>, << >>), code |-> c] :
             k \in {JSON, MGPK}, c \in {Blake2b_256, Ed25519N} }

\* kinds given to Serder: none, those of Serials, and one that is none of them
KindInputs == {NoKind} \cup Serials \cup {<<88, 88, 88, 88>>}

\* the serialisation of a small event under the version string vs
Tagged(vs) == JsonDumps(<< <<Lv, Str(vs)>>, <<Lt, Str(Icp)>> >>)

\* raws given to Serder that no Serder emitted: no version string; version 2.0
\* and shorter than its size; shorter than its size; a kind that is none of
\* Serials; an event of its size; a size that cuts the event; a version
\* string after byte 12; a JSON body under MGPK; fewer than MINSNIFFSIZE bytes
CraftedRaws ==
  { Rep(120, 40),
    Tagged(Versify([major |-> 2, minor |-> 0], JSON, 65535)),
    Tagged(Versify(Version, JSON, 65535)),
    Tagged(Versify(Version, <<88, 88, 88, 88>>, 35)),
    Tagged(Versify(Version, JSON, 35)),
    Tagged(Versify(Version, JSON, 32)),
    JsonDumps(<< <<Rep(97, 10), Str(<<120>>)>>, <<Lv, Str(Versify(Version, JSON, 48))>> >>),
    Tagged(Versify(Version, MGPK, 35)),
    PySlice(Tagged(Versify(Version, JSON, 35)), 0, 28) }

\* raws derived from the raw r of a Serder: itself, with bytes after it, cut
RawVariants(r) == { r, r \o <<65, 65, 65>>, PySlice(r, 0, Len(r) - 1), PySlice(r, 0, 10) }

\* inception events derived from d with the key text key
IcpVariants(d, key) ==
  { d,
    Put(d, Lk, List(<<TweakLast(key)>>)),
    Put(d, Lk, List(<<key \o <<65, 65, 65>> >>)),
    Put(d, Lk, List(<< >>)),
    Put(d, Lk, List(<<key, key>>)),
    Put(d, Lk, List(<<PySlice(key, 0, 10)>>)),
    Without(d, Lk), Without(d, Lt), Without(d, Ln), Without(d, Lv),
    Put(d, Lt, Str(Rot)), Put(d, Lt, Str(Dip)),
    Put(d, Ln, Str(key)),
    Put(d, Lv, Str(Vs0(MGPK))),
    Put(d, Li, Str(key)) }

IcpInputs ==
  UNION { IcpVariants(Event(Vs0(JSON), Icp, Str(<<49>>), <<KeyText(c)>>, << >>), KeyText(c)) :
            c \in {Ed25519N, Ed25519} }

PfxCodeInputs == {Ed25519N, Ed25519, Blake3_256, CryTwo_Ed25519, << >>, Ed25519_Seed}

SeedInputs == { << >>, Seed, OtherSeed, Rep(1, 5) }

\* d with the value of one field other than i changed
Mutations(d) ==
  { Put(d, Lv, Str(Versify(Version, JSON, 255))),
    Put(d, Lv, Str(Vs0(CBOR))),
    Put(d, Lv, Str(Versify([major |-> 2, minor |-> 0], JSON, 0))),
    Put(d, Lt, Str(IF Has(d, Lt) /\ Get(d, Lt) = Str(Icp) THEN Dip ELSE Icp)),
    Put(d, Lt, Str(Rot)),
    Put(d, Ls, Str(<<49>>)),
    Put(d, Lkt, Str(<<50>>)),
    Put(d, Lk, List(<<Qb64(Rep(7, 32), Ed25519)>>)),
    Put(d, Ln, Str(<<69>>)) }

\* dicts given to verify by a prefixer of the prefix pre derived from d: d,
\* d holding pre, d with a field changed, d with k turned into pre, d less a field
VerifyInputs(d, pre) ==
  {d, Put(d, Li, Str(pre)), Put(d, Lk, List(<<pre>>))}
    \cup Mutations(d) \cup { Without(d, l) : l \in {Lt, Lk, Li, Ln, Lv} }

\* dicts given to Nexter: inception events, and thresholds of each form
NexterInputs ==
  IcpInputs \cup
    { Put(Event(Vs0(JSON), Icp, Str(<<49>>), <<KeyText(Ed25519), KeyText(Ed25519N)>>, << >>),
          Lkt, kt) :
        kt \in { Str(<<50>>), Str(<<48>>), Str(<<120>>),
                 List(<< <<49, 47, 50>>, <<49, 47, 50>> >>), List(<< <<49, 47, 51>> >>) } }

\* signatures given to the verfer of VerKey on ser: the one of ser, the one of
\* another text, a short one, none
SigInputs(text) ==
  { crypto_sign_detached(text, VerKey), crypto_sign_detached(<<9>>, VerKey), Rep(0, 10), << >> }

(***************************************************************************)
(* Calls on key event dicts                                                *)
(***************************************************************************)

\* Serder(ked=ked, kind=kind)
SerFromKed ==
  /\ kop = "none"
  /\ \E i \in SerderInputs, kind \in KindInputs :
       \E ked \in {i.ked}, r \in {Serder_init(<< >>, i.ked, kind, i.code)} :
       /\ ser' = IF r.err = "ok" THEN r.ser ELSE NoSerder
       /\ cked0' = ked
       /\ cked' = r.ked
       /\ shared' = (r.err = "ok")
       /\ kres' = r.err
       /\ kin' = kind
  /\ kop' = "Serder(ked)"
  /\ UNCHANGED <<ser0, sin, pfx, dked, pargs, prefixed, nxt, sgn, kval>>
  /\ UNCHANGED <<matVars, thVars, digVars, nxVars, vtVars>>

\* Serder(raw=raw)
SerFromRaw ==
  /\ kop = "none"
  /\ \E r0 \in CraftedRaws :
       \E r \in {Serder_init(r0, << >>, NoKind, Blake3_256)} :
       /\ ser' = IF r.err = "ok" THEN r.ser ELSE NoSerder
       /\ sin' = r0
       /\ kres' = r.err
  /\ kop' = "Serder(raw)"
  /\ UNCHANGED <<kin, cked, cked0, ser0, shared, pfx, dked, pargs, prefixed, nxt, sgn, kval>>
  /\ UNCHANGED <<matVars, thVars, digVars, nxVars, vtVars>>

\* serder.raw = raw
SerSetRaw ==
  /\ ser # NoSerder
  /\ kop = "Serder(ked)" \/ (kop = "kind" /\ sin = << >>)
  /\ \E r0 \in RawVariants(ser.raw) :
       \E r \in {Serder_set_raw(ser, r0)} :
       /\ ser' = r.ser
       /\ sin' = r0
       /\ shared' = (shared /\ r.err # "ok")
       /\ kres' = r.err
  /\ ser0' = ser
  /\ kop' = "raw"
  /\ UNCHANGED <<kin, cked, cked0, pfx, dked, pargs, prefixed, nxt, sgn, kval>>
  /\ UNCHANGED <<matVars, thVars, digVars, nxVars, vtVars>>

\* serder.ked = ked
SerSetKed ==
  /\ ser # NoSerder
  /\ kop \in {"Serder(ked)", "Serder(raw)"}
  /\ \E ked \in KedInputs :
       \E r \in {Serder_set_ked(ser, ked)} :
       /\ ser' = r.ser
       /\ cked0' = ked
       /\ cked' = r.ked
       /\ shared' = (r.err = "ok")
       /\ kres' = r.err
  /\ ser0' = ser
  /\ kop' = "ked"
  /\ UNCHANGED <<sin, kin, pfx, dked, pargs, prefixed, nxt, sgn, kval>>
  /\ UNCHANGED <<matVars, thVars, digVars, nxVars, vtVars>>

\* serder.kind = kind
SerSetKind ==
  /\ ser # NoSerder
  /\ kop \in {"Serder(ked)", "Serder(raw)", "raw", "ked"}
  /\ \E kind \in KindInputs :
       \E r \in {Serder_set_kind(ser, kind)} :
       /\ ser' = r.ser
       /\ cked' = IF shared THEN r.ked ELSE cked
       /\ kres' = r.err
       /\ kin' = kind
  /\ cked0' = cked
  /\ ser0' = ser
  /\ kop' = "kind"
  /\ UNCHANGED <<shared, sin, pfx, dked, pargs, prefixed, nxt, sgn, kval>>
  /\ UNCHANGED <<matVars, thVars, digVars, nxVars, vtVars>>

\* serder.kind = the kind the Serder had before the last serder.kind = kind;
\* ser0 stays the Serder as it was before the two calls
SerSetKindBack ==
  /\ ser # NoSerder
  /\ kop = "kind" /\ kres = "ok"
  /\ \E r \in {Serder_set_kind(ser, ser0.kind)} :
       /\ ser' = r.ser
       /\ cked' = IF shared THEN r.ked ELSE cked
       /\ kres' = r.err
  /\ kop' = "kind back"
  /\ UNCHANGED <<ser0, cked0, kin, shared, sin, pfx, dked, pargs, prefixed, nxt, sgn, kval>>
  /\ UNCHANGED <<matVars, thVars, digVars, nxVars, vtVars>>

\* Prefixer(ked=ked, code=code, seed=seed)
PfxFromKed ==
  /\ kop = "none"
  /\ \E ked \in IcpInputs, code \in PfxCodeInputs, seed \in SeedInputs :
       \E r \in {Prefixer_init_ked(ked, code, seed)} :
       /\ pfx' = r.pfx
       /\ dked' = ked
       /\ pargs' = [code |-> code, seed |-> seed]
       /\ cked0' = ked
       /\ cked' = r.ked
       /\ kres' = r.err
  /\ kop' = "Prefixer(ked)"
  /\ UNCHANGED <<ser, ser0, shared, sin, kin, prefixed, nxt, sgn, kval>>
  /\ UNCHANGED <<matVars, thVars, digVars, nxVars, vtVars>>

\* the codes of the prefixes given: the four Prefixer supports, and a seed, an
\* encryption key, a Blake2b digest and a 128 bit seed
PfxOwnCodes ==
  {Ed25519N, Ed25519, Blake3_256, CryTwo_Ed25519, Ed25519_Seed, <<67>>, <<70>>, <<48, 65>>}

\* the ways a prefix of raw r and code c is given: its raw and code, its qb64
\* and its qb2, the last two alone or with its code
PfxForms(r, c) ==
  { [form |-> "raw", raw |-> r, qb |-> << >>, code |-> c, own |-> c, seed |-> << >>] }
    \cup { [form |-> "qb64", raw |-> r, qb |-> Qualified("CryMat", r, c, 0),
            code |-> g, own |-> c, seed |-> << >>] : g \in {<< >>, c} }
    \cup { [form |-> "qb2", raw |-> r, qb |-> decodeB64(Qualified("CryMat", r, c, 0)).val,
            code |-> g, own |-> c, seed |-> << >>] : g \in {<< >>, c} }

\* Prefixer(raw=raw, code=code) / Prefixer(qb64=qb64) / Prefixer(qb2=qb2)
PfxFromMat ==
  /\ kop = "none"
  /\ \E c \in PfxOwnCodes :
       \E raw \in RawSamples(CryRawSizes[c]) :
       \E a \in PfxForms(raw, c) :
       \E r \in {Prefixer_init_mat(a.form, a.raw, a.qb, a.code)} :
       /\ pfx' = r.pfx
       /\ pargs' = a
       /\ kres' = r.err
  /\ kop' = "Prefixer(mat)"
  /\ UNCHANGED <<cked, cked0, dked, ser, ser0, shared, sin, kin, prefixed, nxt, sgn, kval>>
  /\ UNCHANGED <<matVars, thVars, digVars, nxVars, vtVars>>

\* prefixer.verify(ked, prefixed)
PfxVerify ==
  /\ pfx # NoPrefixer
  /\ kop = "Prefixer(ked)"
  /\ \E ked \in VerifyInputs(dked, Mat_infil(pfx.mat).val), p \in BOOLEAN :
       \E r \in {Prefixer_verify(pfx, ked, p)} :
       /\ prefixed' = p
       /\ cked0' = ked
       /\ cked' = r.ked
       /\ kval' = r.val
       /\ kres' = r.err
  /\ kop' = "verify"
  /\ UNCHANGED <<ser, ser0, shared, sin, kin, pfx, dked, pargs, nxt, sgn>>
  /\ UNCHANGED <<matVars, thVars, digVars, nxVars, vtVars>>

\* Nexter(ked=ked)
NexterFromKed ==
  /\ kop = "none"
  /\ \E ked \in NexterInputs :
       \E r \in {Nexter_init(None, None, << >>, << >>, ked, Blake3_256)} :
       /\ nxt' = r.mat
       /\ cked0' = ked
       /\ cked' = ked
       /\ kres' = r.err
  /\ kop' = "Nexter(ked)"
  /\ UNCHANGED <<ser, ser0, shared, sin, kin, pfx, dked, pargs, prefixed, sgn, kval>>
  /\ UNCHANGED <<matVars, thVars, digVars, nxVars, vtVars>>

\* Verfer(raw=VerKey).verify(sig, ser)
VerferVerify ==
  /\ kop = "none"
  /\ \E text \in { << >>, <<1, 2, 3>> } :
       \E sig \in SigInputs(text) :
       /\ sgn' = [key |-> VerKey, sig |-> sig, ser |-> text]
       /\ kval' = Verfer_verify(VerKey, sig, text)
  /\ kres' = "ok"
  /\ kop' = "Verfer.verify"
  /\ UNCHANGED <<cked, cked0, ser, ser0, shared, sin, kin, pfx, dked, pargs, prefixed, nxt>>
  /\ UNCHANGED <<matVars, thVars, digVars, nxVars, vtVars>>

KedNext ==
  \/ SerFromKed \/ SerFromRaw \/ SerSetRaw \/ SerSetKed \/ SerSetKind \/ SerSetKindBack
  \/ PfxFromKed \/ PfxFromMat \/ PfxVerify \/ NexterFromKed \/ VerferVerify

SpecKed == Init /\ [][KedNext]_vars


(***************************************************************************)
(* Properties of Serder                                                    *)
(***************************************************************************)

\* the last call gave the Serder the very bytes it had emitted before
FedBack == kop = "raw" /\ sin = ser0.raw

\* C4: for every key event dict that exhale accepts, one whose only field is
\* v included, and every kind, inhale of the bytes exhale emitted succeeds
\* and gives a ked equal to the dict.
C4_InhaleExhale == FedBack => (kres = "ok" /\ ser.ked = ser0.ked)

\* the last call serialised a dict and succeeded
Exhaled == kop \in {"Serder(ked)", "ked", "kind"} /\ kres = "ok"

\* the dict the last call serialised, as it was before the call
ExhaledFrom == IF kop = "kind" THEN ser0.ked ELSE cked0

\* C5: after every successful exhale the version string found in the emitted
\* bytes names the selected kind and carries as size the length of the
\* emitted bytes, which is the length of the serialisation before the
\* replacement, and ked.v is that version string; a replacement that changes
\* the length gives an error and no bytes.
C5_VersionTag ==
  Exhaled =>
    \E p \in {ReverSearch(ser.raw)} :
      /\ p # 0
      /\ ReverGroups(ser.raw, p).kind = ser.kind
      /\ ReverGroups(ser.raw, p).size = Len(ser.raw)
      /\ Len(ser.raw) = Len(Dumps(ExhaledFrom, ser.kind))
      /\ Has(ser.ked, Lv)
      /\ Get(ser.ked, Lv) = Str(SubSeq(ser.raw, p, p + 16))
      /\ \E x \in {Exhale_replace(ExhaledFrom, ser.kind, ser.version, ser.raw, p,
                                  Versify(ser.version, ser.kind, 16 ^ VERRAWSIZE))} :
           x.err = "ValueError" /\ x.raw = << >>

\* a dict of several fields was serialised to MGPK
C5_Witness == Exhaled /\ ser.kind = MGPK /\ Len(ser.ked) > 2 /\ Len(ser.raw) > 64

(***************************************************************************)
(* Properties of the calls on key event dicts                              *)
(***************************************************************************)

\* C6 as stated: Serder construction from ked, the Serder ked setter,
\* Prefixer derivation and verification and Nexter derivation leave the
\* caller's dict equal to its value before the call, v included.
C6_CallerDictKept ==
  kop \in {"Serder(ked)", "ked", "Prefixer(ked)", "verify", "Nexter(ked)"} => cked = cked0

\* C6 amended: Prefixer derivation and verification and Nexter derivation
\* leave the caller's dict equal to its value before the call; Serder
\* construction from ked and the Serder ked setter change its v field at
\* most: they leave the dict equal when the serialisation fails, and once
\* the dict is serialised they set v to the version string of the emitted
\* bytes, also when the construction then fails on the code of the diger.
C6_CallerDictKeptButV ==
  /\ kop \in {"Prefixer(ked)", "verify", "Nexter(ked)"} => cked = cked0
  /\ (kop \in {"Serder(ked)", "ked"} /\ kres # "ok") =>
       \/ cked = cked0
       \/ \E k \in Serials :
            cked = Put(cked0, Lv, Str(Versify(Version, k, Len(Dumps(cked0, k)))))
  /\ (kop \in {"Serder(ked)", "ked"} /\ kres = "ok") =>
       cked = Put(cked0, Lv,
                  Str(SubSeq(ser.raw, ReverSearch(ser.raw), ReverSearch(ser.raw) + 16)))

\* the ked setter changed v in the caller's dict
C6_Witness == kop = "ked" /\ kres = "ok" /\ cked # cked0 /\ Len(cked) > 2

\* d is an inception event
IsInception(d) == Has(d, Lt) /\ Get(d, Lt) \in {Str(Icp), Str(Dip)}

\* C7: for each derivation code and every inception event from which the
\* derivation succeeds, the prefixer derived returns true from verify on that
\* same event.
C7_DeriveThenVerify ==
  (kop = "verify" /\ cked0 = dked /\ IsInception(dked) /\ ~prefixed) => (kres = "ok" /\ kval)

\* e is d with the value of a field other than i changed
ChangedNonI(d, e) ==
  /\ Len(d) = Len(e)
  /\ \A j \in 1..Len(d) : d[j][1] = e[j][1] /\ (d[j][1] = Li => d[j][2] = e[j][2])
  /\ \E j \in 1..Len(d) : d[j][2] # e[j][2]

SizeLess(d) ==
  IF Has(d, Lv) /\ ReverSearch(Get(d, Lv).s) = 1 /\ Len(Get(d, Lv).s) = VERFULLSIZE
  THEN Put(d, Lv, Str(SubSeq(Get(d, Lv).s, 1, 10) \o <<48, 48, 48, 48, 48, 48, 95>>))
  ELSE d

\* what a basic prefixer looks at: an inception ilk, k the single key text
\* equal to the prefix, an empty n under Ed25519N, i equal to the prefix
\* when prefixed
BasicHolds(d, pre, code, p) ==
  /\ IsInception(d)
  /\ Has(d, Lk) /\ Get(d, Lk) = List(<<pre>>)
  /\ code = Ed25519N => (Has(d, Ln) /\ ~Truthy(Get(d, Ln)))
  /\ p => (Has(d, Li) /\ Get(d, Li) = Str(pre))

C9_VerifyNeverRaises ==
  /\ kop \in {"verify", "Verfer.verify"} => kres = "ok"
  /\ (kop = "verify" /\ (~IsInception(cked0) \/ \E l \in {Lk, Li, Ln} : ~Has(cked0, l))) => ~kval
  /\ (kop = "Verfer.verify" /\ Len(sgn.sig) # 64) => ~kval

\* the size, version and diger of the Serder s are those of its raw, and
\* the version string of its raw, at p, names its kind and its size
Coherent(s, p) ==
  /\ p # 0
  /\ s.size = Len(s.raw)
  /\ s.version = Version
  /\ s.diger = [cls |-> "CryMat", code |-> s.code, index |-> 0,
                raw |-> Diger_digest(s.raw, s.code).val]
  /\ SubSeq(s.raw, p, p + 16) = Versify(Version, s.kind, s.size)

\* the dict d with its v replaced by the version string of kind and size
Sized(d, kind, size) == Put(d, Lv, Str(Versify(Version, kind, size)))

\* C18: a Serder setter that fails leaves raw, ked, kind, version, size and
\* diger as they were before the call; one that succeeds leaves all six
\* according to its input: the raw setter the leading bytes of the raw given
\* and what they decode to, the ked setter the dict given under the kind held,
\* the kind setter the dict held under the kind given.
C18_SetterAtomic ==
  /\ (kop \in {"raw", "ked", "kind"} /\ kres # "ok") => ser = ser0
  /\ (kop \in {"raw", "ked", "kind"} /\ kres = "ok") => Coherent(ser, ReverSearch(ser.raw))
  /\ (kop = "raw" /\ kres = "ok")
       => /\ ser.raw = PySlice(sin, 0, ser.size)
          /\ ser.ked = Loads(ser.raw, ser.kind).val
  /\ (kop = "ked" /\ kres = "ok")
       => /\ ser.kind = ser0.kind
          /\ ser.ked = Sized(cked0, ser.kind, ser.size)
          /\ Len(ser.raw) = Len(Dumps(cked0, ser.kind))
  /\ (kop = "kind" /\ kres = "ok")
       => /\ ser.kind = IF kin = NoKind THEN Deversify(Get(ser0.ked, Lv).s).kind ELSE kin
          /\ ser.ked = Sized(ser0.ked, ser.kind, ser.size)
          /\ Len(ser.raw) = Len(Dumps(ser0.ked, ser.kind))

\* a kind setter that succeeded with a kind other than the one held
C18_Witness ==
  /\ kop = "kind" /\ kres = "ok"
  /\ ser.kind # ser0.kind /\ ser.raw # ser0.raw /\ ser.diger # ser0.diger

\* the positions (from 1) of the version strings in the bytes s
Tags(s) == {p \in 1..(Len(s) - 16) : ReverAt(s, p)}

\* a Diger of the digest dig under a code
DigerOf(dig, code) == [cls |-> "CryMat", code |-> code, index |-> 0, raw |-> dig]

Validation == {"ValidationError", "ValueError"}

\* the last call gave the bytes sin to _inhale
Inhaled == kop \in {"Serder(raw)", "raw"}

\* the version string of the bytes s, of a kind of Serials, starts at p
\* within the first 13 bytes
TagAt(s, p) == p # 0 /\ p - 1 <= 12 /\ ReverGroups(s, p).err = "ok"

\* what _inhale gives for bytes s with the version string groups g
Classified(s, p, g) ==
  IF Len(s) < MINSNIFFSIZE THEN kres = "ShortageError"
  ELSE IF ~TagAt(s, p) THEN kres \in Validation
  ELSE IF g.version # Version THEN kres = "VersionError"
  ELSE IF Len(s) < g.size THEN kres = "ShortageError"
  ELSE /\ kres = Loads(PySlice(s, 0, g.size), g.kind).err
       /\ kres = "ok" => /\ ser.raw = PySlice(s, 0, g.size)
                         /\ ser.ked = Loads(PySlice(s, 0, g.size), g.kind).val

\* C20: inhale classifies a buffer in this order: fewer than 29 bytes give
\* Shortage; no version string starting within the first 13 bytes gives
\* Validation; a version other than the current one gives a Version error,
\* also when the buffer is shorter than the size declared; else a buffer
\* shorter than the size declared gives Shortage; else the first size bytes
\* are decoded and the bytes after them ignored.
C20_InhaleOrder ==
  Inhaled => Classified(sin, ReverSearch(sin), ReverGroups(sin, ReverSearch(sin)))

\* a buffer of another version that is shorter than the size it declares
C20_Witness ==
  /\ Inhaled /\ kres = "VersionError"
  /\ Len(sin) < ReverGroups(sin, ReverSearch(sin)).size

\* a buffer with bytes after the size it declares
C20_WitnessIgnored ==
  /\ Inhaled /\ kres = "ok"
  /\ Len(sin) > ser.size

\* the code Prefixer(ked=dked, code=pargs.code) derives with: the code given,
\* else the code of the prefix in dked["i"]
DerivesWith(code) ==
  /\ kop = "Prefixer(ked)"
  /\ \/ pargs.code = code
     \/ /\ pargs.code = << >>
        /\ dked # << >> /\ Has(dked, Li)
        /\ CryMat_exfil(Get(dked, Li).s).err = "ok"
        /\ CryMat_exfil(Get(dked, Li).s).mat.code = code

\* d has exactly one key and its code is code
OneKeyOf(d, code) ==
  /\ Has(d, Lk) /\ Len(Get(d, Lk).l) = 1
  /\ CryMat_exfil(Get(d, Lk).l[1]).err = "ok"
  /\ CryMat_exfil(Get(d, Lk).l[1]).mat.code = code

\* n is present in d and empty
EmptyNxt(d) == Has(d, Ln) /\ ~Truthy(Get(d, Ln))

\* C21: derivation with code Ed25519N returns (raw of k[0], code B) iff the
\* event has exactly one key, the code of that key is Ed25519N and n is
\* present and empty; otherwise it signals a Derivation error and there is
\* no prefix.
C21_DeriveNonTrans ==
  DerivesWith(Ed25519N)
    => IF OneKeyOf(dked, Ed25519N) /\ EmptyNxt(dked)
       THEN /\ kres = "ok"
            /\ pfx.mat.code = Ed25519N
            /\ pfx.mat.raw = CryMat_exfil(Get(dked, Lk).l[1]).mat.raw
       ELSE kres = "DerivationError" /\ pfx = NoPrefixer

\* a prefix derived from one key of code B with n empty
C21_Witness ==
  /\ DerivesWith(Ed25519N) /\ kres = "ok"
  /\ pfx.mat.raw = VerKey /\ EmptyNxt(dked)


(***************************************************************************)
(* Calls on a Tholder                                                      *)
(***************************************************************************)

\* greatest length of a list of indices
MaxIndices == 4

\* hex thresholds: 1, 2, 3, a, 1F, and 0, 00, text that is no number and
\* the empty text
NumericSiths ==
  { Str(<<49>>), Str(<<50>>), Str(<<51>>), Str(<<97>>), Str(<<49, 70>>),
    Str(<<48>>), Str(<<48, 48>>), Str(<<120>>), Str(<< >>) }

\* lists of weights and lists of clauses of weights
WeightSiths ==
  { List(<< <<49, 47, 50>>, <<49, 47, 50>>, <<49, 47, 50>> >>),
    List(<< <<49, 47, 50>>, <<49, 47, 51>> >>),
    List(<< <<49>>, <<49, 47, 48>> >>),
    List(<< <<49, 47, 51>>, <<49, 47, 51>>, <<49, 47, 51>> >>),
    List(<< <<51, 47, 50>>, <<45, 49>>, <<49, 47, 50>> >>),
    List(<< >>) }

ClauseSiths ==
  { Lists(<< << <<49, 47, 50>>, <<49, 47, 50>> >>, << <<49, 47, 50>>, <<49, 47, 50>> >> >>),
    Lists(<< << <<49, 47, 50>>, <<49, 47, 50>>, <<49, 47, 50>> >> >>),
    Lists(<< << <<49>> >>, << <<49, 47, 51>>, <<50, 47, 51>>, <<120>> >> >>),
    Lists(<< << <<49, 47, 50>>, <<49, 47, 50>> >>, << <<49, 47, 50>> >> >>),
    Lists(<< << <<49, 47, 50>>, <<49, 47, 50>>, <<49, 47, 50>> >>, << <<49, 47, 50>>, <<49, 47, 50>> >> >>),
    Lists(<< << >> >>) }

\* lists of at most MaxIndices indices over -1..3
IndexLists == UNION { [1..n -> -1..3] : n \in 0..MaxIndices }

\* Tholder(sith=s) for a hex threshold, a list of weights, a list of clauses,
\* None
ThNew ==
  /\ top = "none"
  /\ \/ \E s \in NumericSiths : sith' = s
     \/ \E s \in WeightSiths : sith' = s
     \/ \E s \in ClauseSiths : sith' = s
     \/ sith' = None
  /\ \E r \in {Tholder_init(sith')} : th' = r.th /\ tres' = r.err
  /\ top' = "Tholder"
  /\ UNCHANGED <<indices, tval>>
  /\ UNCHANGED <<matVars, kedVars, digVars, nxVars, vtVars>>

\* tholder.satisfy(indices)
ThSatisfy ==
  /\ top = "Tholder"
  /\ tres = "ok"
  /\ \E l \in IndexLists :
       /\ indices' = l
       /\ tval' = satisfy(th, l)
  /\ tres' = "ok"
  /\ top' = "satisfy"
  /\ UNCHANGED <<th, sith>>
  /\ UNCHANGED <<matVars, kedVars, digVars, nxVars, vtVars>>

ThNext == ThNew \/ ThSatisfy

SpecTholder == Init /\ [][ThNext]_vars

(***************************************************************************)
(* Calls on Digers                                                         *)
(***************************************************************************)

\* serializations to digest
DigerSers == { <<123, 125>>, <<123, 34, 97, 34, 58, 49, 125>> }

\* the digest codes, and the code of a key
DigerCodeInputs == { Blake3_256, Blake2b_256, Blake2s_256, SHA3_256, SHA2_256, Ed25519N }

\* arguments of Diger(...): a serialization to digest, a raw that is the
\* digest of none, a qb64b
DigerInputs ==
  { [given |-> "none", raw |-> << >>, qb64b |-> << >>, ser |-> s, code |-> c] :
      s \in DigerSers \cup {<< >>}, c \in DigerCodeInputs }
    \cup { [given |-> "raw", raw |-> r, qb64b |-> << >>, ser |-> << >>, code |-> c] :
             r \in {Rep(0, 32), Rep(0, 31)}, c \in {Blake3_256, SHA2_256} }
    \cup { [given |-> "qb64b", raw |-> << >>, qb64b |-> q, ser |-> << >>, code |-> Blake3_256] :
             q \in {Qb64(sha256(<<123, 125>>), SHA2_256), Qb64(VerKey, Ed25519)} }

\* Diger(...): the first one made is the Diger compared, the second the other
DigerNew ==
  /\ dgop \in {"none", "first"}
  /\ \E i \in DigerInputs :
       \E r \in {Diger_init(i.given, i.raw, i.qb64b, i.ser, i.code)} :
         /\ dgres' = r.err
         /\ dga' = IF dgop = "none" THEN r.mat ELSE dga
         /\ dgb' = IF dgop = "none" THEN dgb ELSE r.mat
         /\ dgop' = IF r.err # "ok" THEN dgop ELSE IF dgop = "none" THEN "first" ELSE "pair"
  /\ UNCHANGED <<dgargs, dgval, dgn>>
  /\ UNCHANGED <<matVars, kedVars, thVars, nxVars, vtVars>>

\* dga.compare(ser, dig=dgb.qb64b), dga.compare(ser, diger=dgb),
\* dga.compare(ser)
DigerCompare ==
  /\ dgop = "pair"
  /\ \E s \in DigerSers, g \in {"dig", "diger", "none"} :
       \E r \in {Diger_compare(dga, Mat_infil(dga).val, s,
                               [given |-> g, dig |-> Mat_infil(dgb).val, mat |-> dgb])} :
         /\ dgargs' = [ser |-> s, given |-> g]
         /\ dgval' = r.val
         /\ dgn' = r.digests
         /\ dgres' = r.err
  /\ dgop' = "compare"
  /\ UNCHANGED <<dga, dgb>>
  /\ UNCHANGED <<matVars, kedVars, thVars, nxVars, vtVars>>

DigNext == DigerNew \/ DigerCompare

SpecDiger == Init /\ [][DigNext]_vars

(***************************************************************************)
(* Properties of Diger                                                     *)
(***************************************************************************)

\* C14: a.compare(ser, b) is true iff the qb64 of a and b are equal or both
\* a and b verify on ser; for equal codes and different raws it is false and
\* no digest is computed, for equal qb64 it is true and no digest is computed.
C14_Compare ==
  (dgop = "compare" /\ dgres = "ok")
    => /\ dgval <=> \/ Mat_infil(dga).val = Mat_infil(dgb).val
                    \/ Diger_verify(dga, dgargs.ser) /\ Diger_verify(dgb, dgargs.ser)
       /\ (dga.code = dgb.code /\ dga.raw # dgb.raw) => (~dgval /\ dgn = 0)
       /\ Mat_infil(dga).val = Mat_infil(dgb).val => (dgval /\ dgn = 0)

\* two digests of one serialization under one code, neither the digest of
\* the serialization compared, nor equal to the other
C14_Witness ==
  /\ dgop = "compare" /\ dgres = "ok"
  /\ dga.code = dgb.code /\ dga.raw # dgb.raw
  /\ ~dgval /\ dgn = 0

\* digests of the serialization compared under two codes
C14_WitnessAgile ==
  /\ dgop = "compare" /\ dgres = "ok"
  /\ dga.code # dgb.code
  /\ dgval /\ dgn = 2

(***************************************************************************)
(* Calls on a Nexter                                                       *)
(***************************************************************************)

\* three keys, and the qb64 of the Blake3-256 digest of a key
NexKey(j) ==
  CASE j = 1 -> KeyText(Ed25519) [] j = 2 -> KeyText(Ed25519N) [] OTHER -> Qb64(Rep(7, 32), Ed25519)

DigText(key) == Qb64(blake3(key), Blake3_256)

NexKeyLists ==
  { << >>, <<NexKey(1)>>, <<NexKey(1), NexKey(2)>>, <<NexKey(2), NexKey(1)>>,
    <<NexKey(1), NexKey(2), NexKey(3)>>, <<NexKey(1), NexKey(1)>> }

\* lists of key digests, one holding a digest of another code
NexDigLists ==
  { << >>, <<DigText(NexKey(1)), DigText(NexKey(2))>>, <<DigText(NexKey(2)), DigText(NexKey(1))>>,
    <<DigText(NexKey(1)), Qb64(blake2b(NexKey(2)), Blake2b_256)>> }

\* events with a numeric kt, a weighted kt and no kt, and no event
NexKeds ==
  { << >>,
    Event(Vs0(JSON), Icp, Str(<<50>>), <<NexKey(1), NexKey(2)>>, << >>),
    Event(Vs0(JSON), Icp, List(<< <<49, 47, 50>>, <<49, 47, 50>>, <<49, 47, 50>> >>),
          <<NexKey(2), NexKey(3), NexKey(1)>>, << >>),
    Without(Event(Vs0(JSON), Icp, Str(<<49>>), <<NexKey(3), NexKey(1), NexKey(2)>>, << >>), Lkt) }

\* a limen, and thresholds: 1, [1/2, 1/2], and 0, which Tholder rejects
NexLimens == { None, Str(<<51>>) }
NexSiths == { None, Str(<<49>>), List(<< <<49, 47, 50>>, <<49, 47, 50>> >>), Str(<<48>>) }

\* the orderings of the list l
Perms(l) == { [i \in 1..Len(l) |-> l[f[i]]] : f \in Permutations(1..Len(l)) }

\* the key list of the event d
KeysOf(d) == IF d # << >> /\ Has(d, Lk) THEN Get(d, Lk).l ELSE << >>

\* the arguments a with its key list, its digest list or the key list of its
\* event reordered
Reordered(a) ==
  { [a EXCEPT !.keys = l] : l \in Perms(a.keys) }
    \cup { [a EXCEPT !.digs = l] : l \in Perms(a.digs) }
    \cup { [a EXCEPT !.ked = IF KeysOf(a.ked) = << >> THEN a.ked ELSE Put(a.ked, Lk, List(l))] :
             l \in Perms(KeysOf(a.ked)) }

\* Nexter(limen, sith, digs, keys, ked)
NexterNew ==
  /\ nxop = "none"
  /\ \E limen \in NexLimens, st \in NexSiths, digs \in NexDigLists,
        keys \in NexKeyLists, ked \in NexKeds :
       \E r \in {Nexter_init(limen, st, digs, keys, ked, Blake3_256)} :
         /\ nxargs' = [limen |-> limen, sith |-> st, digs |-> digs, keys |-> keys, ked |-> ked]
         /\ nxa' = r.mat
         /\ nxres' = r.err
  /\ nxop' = "new"
  /\ UNCHANGED <<nxv, nxval>>
  /\ UNCHANGED <<matVars, kedVars, thVars, digVars, vtVars>>

\* nexter.verify(limen, sith, digs, keys, ked): with the arguments of the
\* constructor, with a list of them reordered, with another limen, with
\* another key list
NexterVerify ==
  /\ nxop = "new" /\ nxres = "ok"
  /\ \E a \in Reordered(nxargs) \cup { [nxargs EXCEPT !.limen = Str(<<52>>)],
                                       [nxargs EXCEPT !.keys = <<NexKey(3)>>] } :
       \E r \in {Nexter_verify(nxa, << >>, a.limen, a.sith, a.digs, a.keys, a.ked)} :
         /\ nxv' = a
         /\ nxval' = r.val
         /\ nxres' = r.err
  /\ nxop' = "verify"
  /\ UNCHANGED <<nxa, nxargs>>
  /\ UNCHANGED <<matVars, kedVars, thVars, digVars, vtVars>>

NexNext == NexterNew \/ NexterVerify

SpecNexter == Init /\ [][NexNext]_vars

(***************************************************************************)
(* Properties of Nexter                                                    *)
(***************************************************************************)

\* the limen of the arguments a for n keys: the limen given, else the limen
\* of the Tholder of the sith given, else of the kt of the event, else the
\* hex of max(1, ceil(n / 2))
LimenOf(a, n) ==
  IF a.limen # None THEN a.limen.s
  ELSE IF a.sith # None THEN Tholder_init(a.sith).th.limen
  ELSE IF a.ked # << >> /\ Has(a.ked, Lkt) THEN Tholder_init(Get(a.ked, Lkt)).th.limen
  ELSE HexDigits(CHOOSE m \in 1..(n + 1) : (2 * m >= n) /\ (m = 1 \/ 2 * (m - 1) < n))

\* the key digests of the arguments a: the raws of the digests given, else
\* the digests of the keys given, else of the keys of the event
KeyDigsOf(a) ==
  IF a.digs # << >> THEN [i \in 1..Len(a.digs) |-> CryMat_exfil(a.digs[i]).mat.raw]
  ELSE IF a.keys # << >> THEN [i \in 1..Len(a.keys) |-> blake3(a.keys[i])]
  ELSE [i \in 1..Len(KeysOf(a.ked)) |-> blake3(KeysOf(a.ked)[i])]

\* bit b of the byte x
BitOf(x, b) == (x \div (2 ^ b)) % 2

\* byte i of the xor of the byte strings ds: bit b is the parity of the
\* bits b of the bytes i
XorOf(ds, i) ==
  SumRange([c \in 1..8 |->
             (2 ^ (c - 1)) * (SumRange([k \in 1..Len(ds) |-> BitOf(ds[k][i], c - 1)], 1, Len(ds)) % 2)],
           1, 8)

\* the commitment of the limen text and the key digests kd
Commitment(text, kd) == [i \in 1..CryRawSizes[Blake3_256] |-> XorOf(<<blake3(text)>> \o kd, i)]

\* C22: the raw of a Nexter is the raw_size(code) bytes of digest(limen) XOR
\* digest(k1) XOR ... XOR digest(kn), limen being the limen given, else the
\* limen of the Tholder of sith, else of ked.kt, else of the default
\* threshold hex(max(1, ceil(n/2))); verify with the same inputs is true.
C22_NexterRaw ==
  /\ (nxop = "new" /\ nxres = "ok")
       => nxa.raw = Commitment(LimenOf(nxargs, Len(KeyDigsOf(nxargs))), KeyDigsOf(nxargs))
  /\ (nxop = "verify" /\ nxv = nxargs) => (nxres = "ok" /\ nxval)

\* a Nexter of three keys of an event without kt, verified
C22_Witness ==
  /\ nxop = "verify" /\ nxv = nxargs /\ nxval
  /\ nxargs.limen = None /\ nxargs.sith = None /\ nxargs.digs = << >> /\ nxargs.keys = << >>
  /\ Len(KeysOf(nxargs.ked)) = 3 /\ ~Has(nxargs.ked, Lkt)

\* C27: the commitment of a Nexter does not depend on the order of the key
\* list: every permutation of the keys, or of the key digests, derives the
\* same raw, and verify against a permuted list returns true.
C27_OrderFree ==
  /\ (nxop = "new" /\ nxres = "ok")
       => \A a \in Reordered(nxargs) :
            Nexter_derive(Blake3_256, a.limen, a.sith, a.digs, a.keys, a.ked).raw = nxa.raw
  /\ (nxop = "verify" /\ nxv \in Reordered(nxargs)) => (nxres = "ok" /\ nxval)

\* three keys verified in another order
C27_Witness ==
  /\ nxop = "verify" /\ nxval
  /\ nxargs.digs = << >> /\ Len(nxargs.keys) = 3
  /\ nxv.keys # nxargs.keys /\ nxv \in Reordered(nxargs)

(***************************************************************************)
(* Calls on version strings                                                *)
(***************************************************************************)

\* texts made from the version string t: t, t followed by more, t after a
\* space, t less its last char, t of another kind, t with an upper-case hex
\* digit, t of a lower-case kind
TagVariants(t) ==
  IF t = << >> THEN { << >>, <<75, 69, 82, 73>> }
  ELSE { t, t \o <<120, 121, 122>>, <<32>> \o t, PySlice(t, 0, Len(t) - 1),
         [t EXCEPT ![7] = 88, ![8] = 88, ![9] = 88, ![10] = 88],
         [t EXCEPT ![16] = 70],
         [t EXCEPT ![7] = 106] }

\* Versify(version=(major, minor), kind=kind, size=size)
VersifyCall ==
  /\ vtop = "none"
  /\ \E major \in {0, 1, 10, 15}, minor \in {0, 9, 15},
        kind \in Serials \cup {<<88, 88, 88, 88>>},
        size \in {0, 1, 255, 4096, 16 ^ 6 - 1} :
       /\ vtargs' = [version |-> [major |-> major, minor |-> minor], kind |-> kind, size |-> size]
       /\ vtag' = Versify_checked([major |-> major, minor |-> minor], kind, size)
  /\ vtop' = "Versify"
  /\ UNCHANGED <<vtin, vtres>>
  /\ UNCHANGED <<matVars, kedVars, thVars, digVars, nxVars>>

\* Deversify(vs) of the text Versify returned, or of a text made from it
DeversifyCall ==
  /\ vtop = "Versify"
  /\ \E t \in TagVariants(vtag.val) :
       /\ vtin' = t
       /\ vtres' = Deversify(t)
  /\ vtop' = "Deversify"
  /\ UNCHANGED <<vtargs, vtag>>
  /\ UNCHANGED <<matVars, kedVars, thVars, digVars, nxVars>>

VtNext == VersifyCall \/ DeversifyCall

SpecVersion == Init /\ [][VtNext]_vars

(***************************************************************************)
(* Properties of version strings                                           *)
(***************************************************************************)

\* the text s matches ^KERI[0-9a-f]{2}[A-Z]{4}[0-9a-f]{6}_$ in full
FullMatch(s) ==
  /\ Len(s) = VERFULLSIZE
  /\ SubSeq(s, 1, 4) = <<75, 69, 82, 73>>
  /\ \A i \in {5, 6} \cup 11..16 : s[i] \in 48..57 \/ s[i] \in 97..102
  /\ \A i \in 7..10 : s[i] \in 65..90
  /\ s[17] = 95

\* C24: for every major and minor in 0..15, kind of Serials and size in
\* 0..16^6-1, Versify emits 17 chars and Deversify of them returns (kind,
\* version, size); every text that does not match the pattern in full, a
\* version string followed by more chars included, or whose kind is not of
\* Serials, is rejected.
C24_WirePattern ==
  /\ (vtop \in {"Versify", "Deversify"} /\ vtargs.kind \in Serials)
       => (vtag.err = "ok" /\ Len(vtag.val) = VERFULLSIZE)
  /\ (vtop = "Deversify" /\ vtin = vtag.val /\ vtag.err = "ok")
       => /\ vtres.err = "ok"
          /\ vtres.kind = vtargs.kind /\ vtres.version = vtargs.version
          /\ vtres.size = vtargs.size
  /\ (vtop = "Deversify" /\ ~(FullMatch(vtin) /\ SubSeq(vtin, 7, 10) \in Serials))
       => vtres.err # "ok"

(***************************************************************************)
(* Properties of Tholder                                                   *)
(***************************************************************************)

\* C10: a numeric Tholder of threshold t is satisfied by indices iff the
\* number of distinct values in indices is at least t: with threshold 2,
\* [0,1] satisfies, [0] does not and [1,1] does not.
C10_NumericDistinct ==
  (top = "satisfy" /\ ~th.weighted) => (tval <=> Cardinality(Range(indices)) >= th.thold)

\* the product of the denominators of the weights ws[k..]
RECURSIVE DenomProduct(_, _)
DenomProduct(ws, k) == IF k > Len(ws) THEN 1 ELSE ws[k].d * DenomProduct(ws, k + 1)

\* the weights of a clause at the positions offset, offset + 1, ... that are
\* in S sum to at least one: over the common denominator D, the numerators
\* n * (D / d) of the chosen weights sum to at least D
ClauseReached(ws, offset, S, D) ==
  SumRange([k \in 1..Len(ws) |->
             IF offset + k - 1 \in S THEN ws[k].n * (D \div ws[k].d) ELSE 0],
           1, Len(ws)) >= D

\* the position of the first weight of clause c, the weights of all the
\* clauses being numbered consecutively from 0
ClauseStart(thold, c) == SumRange([b \in 1..Len(thold) |-> Len(thold[b])], 1, c - 1)

EveryClauseReached(thold, S) ==
  \A c \in 1..Len(thold) :
    ClauseReached(thold[c], ClauseStart(thold, c), S, DenomProduct(thold[c], 1))

\* C11: a weighted Tholder is satisfied by indices that all lie in 0..size-1
\* iff every clause's exact sum of the weights at the positions present in
\* indices is at least 1, the weights of all clauses being numbered
\* consecutively from 0; the result depends on the set of the indices only,
\* not on their order or repetition.
C11_WeightedSum ==
  (top = "satisfy" /\ th.weighted /\ Range(indices) \subseteq 0..(th.size - 1))
    => (tval <=> EveryClauseReached(th.thold, Range(indices)))

HalfHalfHalf == Lists(<< << <<49, 47, 50>>, <<49, 47, 50>>, <<49, 47, 50>> >> >>)

\* [[1/2,1/2,1/2]] is satisfied by the indices 2, 0, 2
C11_Witness ==
  top = "satisfy" /\ sith = HalfHalfHalf /\ indices = <<2, 0, 2>> /\ tval

TwoHalves == Lists(<< << <<49, 47, 50>>, <<49, 47, 50>> >>, << <<49, 47, 50>>, <<49, 47, 50>> >> >>)

\* C12: the two-clause threshold [[1/2,1/2],[1/2,1/2]] needs an index in each
\* half: satisfy([0,1]) is false and satisfy([0,2]) is true.
C12_EachHalf ==
  (top = "satisfy" /\ sith = TwoHalves)
    => /\ indices = <<0, 1>> => ~tval
       /\ indices = <<0, 2>> => tval

\* C12 as the code has it: the two-clause threshold [[1/2,1/2],[1/2,1/2]]
\* needs both indices of each half: satisfy([0,1]) is false, satisfy([0,2])
\* is false and satisfy([0,1,2,3]) is true.
C12_BothOfEachHalf ==
  (top = "satisfy" /\ sith = TwoHalves)
    => /\ indices = <<0, 1>> => ~tval
       /\ indices = <<0, 2>> => ~tval
       /\ indices = <<0, 1, 2, 3>> => tval

C12_Witness ==
  top = "satisfy" /\ sith = TwoHalves /\ indices = <<0, 1, 2, 3>> /\ tval

\* C13: a weighted Tholder of size n is not satisfied by indices that hold
\* any integer outside 0..n-1, too large or negative, whatever else they hold.
C13_OutOfRange ==
  (top = "satisfy" /\ th.weighted /\ ~(Range(indices) \subseteq 0..(th.size - 1))) => ~tval

\* the value of a hex digit, and of a text of hex digits
HexDigit(c) == IF c \in 48..57 THEN c - 48 ELSE IF c \in 97..102 THEN c - 87 ELSE c - 55

HexValue(cs) == SumRange([i \in 1..Len(cs) |-> HexDigit(cs[i]) * 16 ^ (Len(cs) - i)], 1, Len(cs))

IsHexText(cs) ==
  cs # << >> /\ \A i \in 1..Len(cs) : cs[i] \in 48..57 \/ cs[i] \in 97..102 \/ cs[i] \in 65..70

\* the clauses of a weighted sith: a flat list is the one clause of its weights
ClausesOf(st) == IF st.tp = "list" THEN <<st.l>> ELSE st.l

\* every weight of the clauses cl is a fraction, and every clause sums to at
\* least one
ClausesValid(cl) ==
  /\ \A c \in 1..Len(cl) : \A k \in 1..Len(cl[c]) : Fraction(cl[c][k]).err = "ok"
  /\ \A c \in 1..Len(cl) :
       ClauseReached([k \in 1..Len(cl[c]) |-> Fraction(cl[c][k])], 0, 0..Len(cl[c]),
                     DenomProduct([k \in 1..Len(cl[c]) |-> Fraction(cl[c][k])], 1))

\* the Tholder is the numeric one of the hex text cs
NumericOf(cs) ==
  /\ tres = "ok" /\ ~th.weighted
  /\ th.thold = HexValue(cs) /\ th.size = th.thold /\ th.limen = cs

\* the Tholder is the weighted one of the clauses cl
WeightedOf(cl) ==
  /\ tres = "ok" /\ th.weighted
  /\ th.size = SumRange([c \in 1..Len(cl) |-> Len(cl[c])], 1, Len(cl))
  /\ th.limen = Join([c \in 1..Len(cl) |-> Join(cl[c], <<44>>)], <<38>>)

Rejected == tres \notin {"ok", "none"} /\ th = NoTholder

\* C23: Tholder accepts a hex text iff its value is at least 1 (weighted
\* false, size = thold, limen = the text), and accepts a weighted threshold
\* iff it is not empty and the exact sum of every clause is at least 1 (size
\* = the number of weights, limen = the fraction texts joined by "," within a
\* clause and by "&" between clauses), a flat list of fractions being the one
\* clause of them; every other input is rejected with an error.
C23_TholderAccepts ==
  top = "Tholder"
    => CASE sith.tp = "str" ->
              IF IsHexText(sith.s) /\ HexValue(sith.s) >= 1 THEN NumericOf(sith.s) ELSE Rejected
         [] sith.tp \in {"list", "lists"} ->
              IF sith.l # << >> /\ ClausesValid(ClausesOf(sith))
              THEN WeightedOf(ClausesOf(sith)) ELSE Rejected
         [] OTHER -> Rejected

\* the threshold of the spec: two clauses of three and of two halves
C23_Witness ==
  /\ top = "Tholder" /\ tres = "ok" /\ th.size = 5
  /\ th.limen = <<49, 47, 50, 44, 49, 47, 50, 44, 49, 47, 50, 38, 49, 47, 50, 44, 49, 47, 50>>

\* the list l holds no index twice
NoRepeat(l) == \A a, b \in 1..Len(l) : l[a] = l[b] => a = b

\* the lists of indices taken from those of the list l
ListsWithin(l) == UNION { [1..n -> Range(l)] : n \in 0..Len(l) }

\* C26: satisfaction is monotone for every Tholder the constructor accepts:
\* if satisfy(S) is true and T holds every index of S, all indices of T in
\* 0..size-1, then satisfy(T) is true; the full index set 0..size-1 always
\* satisfies and the empty set never does.
C26_Monotone ==
  (top = "satisfy" /\ NoRepeat(indices) /\ Range(indices) \subseteq 0..(th.size - 1))
    => /\ (\E S \in ListsWithin(indices) : NoRepeat(S) /\ satisfy(th, S)) => tval
       /\ indices = << >> => ~tval
       /\ Range(indices) = 0..(th.size - 1) => tval

\* the raw size of the code of the arguments a, a code of the size tables,
\* and an index the constructor takes
RawSizeOf(a) == IF a.cls = "CryMat" THEN CryRawSizes[a.code] ELSE SigRawSizes[a.code]

Sizable(a) ==
  /\ a.code \in (IF a.cls = "CryMat" THEN DOMAIN CryRawSizes ELSE DOMAIN SigRawSizes)
  /\ a.index \in 0..63

\* C25: a material made from raw and a code has len(raw) = raw_size(code) by
\* truncation: every raw longer than raw_size(code) is accepted and stored as
\* its first raw_size(code) bytes, whatever its excess length, and every raw
\* shorter than raw_size(code) is rejected with a Validation error.
C25_RawTruncated ==
  (mop = "init" /\ Sizable(args))
    => /\ Len(args.raw) >= RawSizeOf(args)
            => (mres = "ok" /\ mat.raw = SubSeq(args.raw, 1, RawSizeOf(args)))
       /\ Len(args.raw) < RawSizeOf(args) => mres \in Validation

\* C30: exfil consumes only the head of its buffer: for every valid
\* qualified string q and every sequence of bytes t after it, exfil of q
\* followed by t succeeds with the (code, raw, index) of q, so that no input
\* reaches the Validation outcome of a buffer longer than full_len.
C30_HeadOnly ==
  mop = "stream"
    => /\ mres = "ok"
       /\ mat.code = args.code /\ mat.raw = args.raw /\ mat.index = args.index

\* C29: switching the encoding of a Serder is lossless: for a Serder of kind
\* K1 and every K2 of Serials, setting kind to K2 and then back to K1
\* restores raw, size, ked and diger, and setting kind to the current kind
\* changes nothing.
C29_KindLossless ==
  /\ kop = "kind back" => (kres = "ok" /\ ser = ser0)
  /\ (kop = "kind" /\ kin = ser0.kind) => (kres = "ok" /\ ser = ser0)


\* the codes Prefixer.__init__ selects a verification for
PfxSupported == {Ed25519N, Ed25519, Blake3_256, CryTwo_Ed25519}

\* the last call made a Prefixer from the material of a prefix of a supported code
FromSupported == kop = "Prefixer(mat)" /\ pargs.own \in PfxSupported

\* C28: a Prefixer is constructed from the qb64, the qb2 or the (raw, code) of
\* a prefix of each supported code B, D, E and 0B, holds that prefix, and
\* verifies by the rule of the prefix's own code; construction fails only for
\* unsupported codes.
C28_PrefixerForms ==
  /\ FromSupported =>
       /\ kres = "ok"
       /\ pfx.mat.code = pargs.own /\ pfx.mat.raw = pargs.raw
       /\ pfx.verify = pargs.own
  /\ (kop = "Prefixer(mat)" /\ kres # "ok") => pargs.own \notin PfxSupported

=============================================================================
